---- MODULE Spec2Model ----
(***************************************************************************)
(* teatime: the note store (internal/storage/storage.go), its reminder     *)
(* scan CheckMissingSummaries, and the Bubble Tea model that displays the  *)
(* scan's result (internal/tui/model.go).                                  *)
(*                                                                         *)
(* Strings are sequences of one-character strings, so that formatting,     *)
(* parsing and Go's bytewise string comparison are computed, not assumed.  *)
(* A time.Time is modelled at day granularity: the number of days since    *)
(* 1970-01-01 of its civil date.                                           *)
(***************************************************************************)
EXTENDS Integers, Sequences, FiniteSets, Bags, TLC

(***************************************************************************)
(* Strings                                                                 *)
(***************************************************************************)

\* The characters the model's strings are made of, in ASCII (byte) order.
Alphabet ==
    << " ", "-", "0", "1", "2", "3", "4", "5", "6", "7", "8", "9",
       "M", "Q", "W", "Y",
       "a", "d", "e", "f", "h", "k", "l", "m", "n", "o", "r", "s", "t", "u",
       "x", "y" >>

\* The rank of a character in byte order.
Ord(c) == CHOOSE i \in 1..Len(Alphabet) : Alphabet[i] = c

Digits == << "0", "1", "2", "3", "4", "5", "6", "7", "8", "9" >>

isDigit(c) == \E i \in 1..10 : Digits[i] = c

DigitValue(c) == (CHOOSE i \in 1..10 : Digits[i] = c) - 1

\* Go's s < t on strings: bytewise lexicographic order.
RECURSIVE StrLess(_, _)
StrLess(s, t) ==
    IF t = << >> THEN FALSE
    ELSE IF s = << >> THEN TRUE
    ELSE IF Head(s) # Head(t) THEN Ord(Head(s)) < Ord(Head(t))
    ELSE StrLess(Tail(s), Tail(t))

\* The decimal digits of n >= 0.
RECURSIVE Digs(_)
Digs(n) == IF n < 10 THEN << Digits[n + 1] >>
           ELSE Digs(n \div 10) \o << Digits[(n % 10) + 1] >>

\* fmt's %d.
Itoa(n) == IF n < 0 THEN << "-" >> \o Digs(-n) ELSE Digs(n)

\* Zero padding to a minimum width w (fmt's %0wd, time's appendInt).
RECURSIVE ZeroPad(_, _)
ZeroPad(s, w) == IF Len(s) >= w THEN s ELSE ZeroPad(<< "0" >> \o s, w)

PadInt(n, w) == IF n < 0 THEN << "-" >> \o ZeroPad(Digs(-n), w - 1)
                ELSE ZeroPad(Digs(n), w)

\* The value of a string of decimal digits.
RECURSIVE Atoi(_)
Atoi(s) == IF s = << >> THEN 0
           ELSE 10 * Atoi(SubSeq(s, 1, Len(s) - 1)) + DigitValue(s[Len(s)])

(***************************************************************************)
(* Calendar (package time, as used by storage.go)                          *)
(***************************************************************************)

isLeap(y) == (y % 4 = 0) /\ ((y % 100 # 0) \/ (y % 400 = 0))

daysIn(m, y) ==
    IF m = 2 THEN (IF isLeap(y) THEN 29 ELSE 28)
    ELSE IF m \in {4, 6, 9, 11} THEN 30 ELSE 31

\* time.Date(y, m, d, 0, ...): the day number of a civil date. As in Go, a day
\* outside the month is normalised (day 0 is the last day of the month before).
Date(y, m, d) ==
    LET yy  == IF m <= 2 THEN y - 1 ELSE y
        era == yy \div 400
        yoe == yy - era * 400
        mp  == IF m > 2 THEN m - 3 ELSE m + 9
        doy == (153 * mp + 2) \div 5
        doe == yoe * 365 + yoe \div 4 - yoe \div 100 + doy
    IN  era * 146097 + doe - 719468 + (d - 1)

\* t.Date(): the civil date [year, month, day] of a day number.
Civil(t) ==
    LET z   == t + 719468
        era == z \div 146097
        doe == z - era * 146097
        yoe == (doe - doe \div 1460 + doe \div 36524 - doe \div 146096) \div 365
        doy == doe - (365 * yoe + yoe \div 4 - yoe \div 100)
        mp  == (5 * doy + 2) \div 153
        d   == doy - (153 * mp + 2) \div 5 + 1
        m   == IF mp < 10 THEN mp + 3 ELSE mp - 9
        y   == yoe + era * 400
    IN  [year |-> IF m <= 2 THEN y + 1 ELSE y, month |-> m, day |-> d]

Year(t) == Civil(t).year

Month(t) == Civil(t).month

\* t.Weekday(): Sunday = 0 .. Saturday = 6 (1970-01-01 was a Thursday).
Weekday(t) == (t + 4) % 7

\* t.AddDate(0, 0, n).
AddDays(t, n) == t + n

\* t.ISOWeek(): the year and number of the week of the Thursday of t's week.
ISOWeek(t) ==
    LET d0 == 4 - Weekday(t)
        d  == IF d0 = 4 THEN -3 ELSE d0
        th == t + d
        y  == Year(th)
        yday == th - Date(y, 1, 1)
    IN  [year |-> y, week |-> yday \div 7 + 1]

\* t.Format("2006-01-02"), t.Format("2006-01"), t.Format("2006").
FormatDay(t) ==
    LET c == Civil(t)
    IN  PadInt(c.year, 4) \o << "-" >> \o PadInt(c.month, 2) \o << "-" >> \o PadInt(c.day, 2)

FormatMonth(t) ==
    LET c == Civil(t) IN PadInt(c.year, 4) \o << "-" >> \o PadInt(c.month, 2)

FormatYear(t) == PadInt(Year(t), 4)

\* ParseDay without the check of the day against the length of the month.
MutParseDayAnyDay(s) ==
    LET shape == /\ Len(s) = 10
                 /\ \A i \in {1, 2, 3, 4, 6, 7, 9, 10} : isDigit(s[i])
                 /\ s[5] = "-" /\ s[8] = "-"
        y == Atoi(SubSeq(s, 1, 4))
        m == Atoi(SubSeq(s, 6, 7))
        d == Atoi(SubSeq(s, 9, 10))
    IN  IF shape /\ m \in 1..12 /\ d >= 1 /\ d <= 31
        THEN [ok |-> TRUE, t |-> Date(y, m, d)]
        ELSE [ok |-> FALSE, t |-> 0]

\* time.Parse("2006-01-02", s): four digits, '-', two digits, '-', two digits,
\* nothing after; the month in 1..12 and the day within the month.
ParseDay(s) ==
    LET shape == /\ Len(s) = 10
                 /\ \A i \in {1, 2, 3, 4, 6, 7, 9, 10} : isDigit(s[i])
                 /\ s[5] = "-" /\ s[8] = "-"
        y == Atoi(SubSeq(s, 1, 4))
        m == Atoi(SubSeq(s, 6, 7))
        d == Atoi(SubSeq(s, 9, 10))
    IN  IF shape /\ m \in 1..12 /\ d >= 1 /\ d <= daysIn(m, y)
        THEN [ok |-> TRUE, t |-> Date(y, m, d)]
        ELSE [ok |-> FALSE, t |-> 0]

(***************************************************************************)
(* The note store                                                          *)
(***************************************************************************)

CategoryDaily == "days"

CategoryWeekly == "weeks"

CategoryMonthly == "months"

CategoryQuarterly == "quarters"

CategoryYearly == "years"

AllCategories ==
    << CategoryDaily, CategoryWeekly, CategoryMonthly, CategoryQuarterly, CategoryYearly >>

\* The error value nil.
nil == "nil"

VARIABLES
    files,      \* the note files under ~/.teatime: path -> content
    now,        \* the wall clock, read by time.Now()
    ret,        \* the most recent call of the store: its name, what it returned
                \* and, for a reminder scan, its local variable `now`
    model,      \* the Model of the terminal interface
    cmds,       \* the commands Update returned that have not run yet (a bag)
    inbox,      \* the messages of commands that Update has not received yet (a bag)
    running,    \* FALSE once tea.Quit ended the program
    last,       \* the message Update was last called with: its type and error
    typed       \* the characters the user's keys have put into the editor
                \* since it was opened

vars == << files, now, ret, model, cmds, inbox, running, last, typed >>

tui == << model, cmds, inbox, running, last, typed >>

\* The path of a note: (project, category, name + ".md").
notePath(project, category, name) == << project, category, name >>

\* The note names of a directory: its files that end in ".md", suffix trimmed.
DirNames(fs, project, category) ==
    { p[3] : p \in { q \in DOMAIN fs : q[1] = project /\ q[2] = category } }

\* sort.Slice with less(i, j) == notes[i].Name > notes[j].Name: the names of a
\* set, in descending order.
RECURSIVE SortDescending(_)
SortDescending(S) ==
    IF S = {} THEN << >>
    ELSE LET top == CHOOSE x \in S : \A y \in S \ {x} : StrLess(y, x)
         IN  << top >> \o SortDescending(S \ {top})

\* os.MkdirAll that leaves a file in a directory it made.
MutMkdirAllLeavesFile(fs, project, category, dirOk) ==
    IF dirOk /\ DirNames(fs, project, category) = {}
    THEN [p \in DOMAIN fs \cup { notePath(project, category, << "k", "e", "e", "p" >>) } |->
            IF p \in DOMAIN fs THEN fs[p] ELSE << >>]
    ELSE fs

\* The notes after os.MkdirAll(dir, 0755) in ListNotes: it makes the directory
\* of the category if there is none, or fails (dirOk = FALSE); the notes are
\* those there were.
MkdirAll(fs, project, category, dirOk) == fs

\* ListNotes: the notes of (project, category), most recent name first, or an
\* error when the directory cannot be created or read (dirOk = FALSE).
ListNotes(fs, project, category, dirOk) ==
    IF ~dirOk
    THEN [notes |-> << >>, err |-> "could not read directory"]
    ELSE [notes |-> SortDescending(DirNames(fs, project, category)), err |-> nil]

\* ReadNote with a note that does not exist reported as a failure.
MutReadNoteAbsentIsError(fs, project, category, name, diskOk) ==
    IF diskOk /\ notePath(project, category, name) \in DOMAIN fs
    THEN [content |-> fs[notePath(project, category, name)], err |-> nil]
    ELSE [content |-> << >>, err |-> "could not read note"]

\* ReadNote: the content of a note, empty for a note that does not exist, or
\* an error when the file cannot be read (diskOk = FALSE).
ReadNote(fs, project, category, name, diskOk) ==
    IF ~diskOk THEN [content |-> << >>, err |-> "could not read note"]
    ELSE IF notePath(project, category, name) \in DOMAIN fs
    THEN [content |-> fs[notePath(project, category, name)], err |-> nil]
    ELSE [content |-> << >>, err |-> nil]

\* NoteExists telling that a file without content does not exist.
MutNoteExistsNonEmpty(fs, project, category, name) ==
    /\ notePath(project, category, name) \in DOMAIN fs
    /\ fs[notePath(project, category, name)] # << >>

\* NoteExists: whether the note's file exists.
NoteExists(fs, project, category, name) ==
    notePath(project, category, name) \in DOMAIN fs

\* The files after WriteNote succeeded.
WriteFile(fs, path, content) ==
    [p \in DOMAIN fs \cup {path} |-> IF p = path THEN content ELSE fs[p]]

\* The files after DeleteNote succeeded.
RemoveFile(fs, path) == [p \in DOMAIN fs \ {path} |-> fs[p]]

(***************************************************************************)
(* Reminders                                                               *)
(***************************************************************************)

\* fmt.Sprintf("%d-W%02d", year, week).
WeekName(w) == Itoa(w.year) \o << "-", "W" >> \o PadInt(w.week, 2)

\* quarterName with the quarter taken as t.Month()/3 + 1.
MutQuarterNameMonthNotShifted(t) ==
    Itoa(Year(t)) \o << "-", "Q" >> \o Itoa(Month(t) \div 3 + 1)

\* quarterName: fmt.Sprintf("%d-Q%d", t.Year(), (t.Month()-1)/3 + 1).
quarterName(t) ==
    Itoa(Year(t)) \o << "-", "Q" >> \o Itoa((Month(t) - 1) \div 3 + 1)

categoryOrder(c) ==
    IF c = CategoryWeekly THEN 0
    ELSE IF c = CategoryMonthly THEN 1
    ELSE IF c = CategoryQuarterly THEN 2
    ELSE IF c = CategoryYearly THEN 3
    ELSE 4

\* ReminderLess without the comparison of the names.
MutReminderLessCategoryOnly(a, b) ==
    categoryOrder(a.Category) < categoryOrder(b.Category)

\* The comparison CheckMissingSummaries sorts by: category order, then name
\* descending.
ReminderLess(a, b) ==
    IF categoryOrder(a.Category) # categoryOrder(b.Category)
    THEN categoryOrder(a.Category) < categoryOrder(b.Category)
    ELSE StrLess(b.Name, a.Name)

\* sort.Slice(reminders, less): insertion of each element before the first
\* element it is less than.
RECURSIVE InsertSorted(_, _)
InsertSorted(r, sorted) ==
    IF sorted = << >> THEN << r >>
    ELSE IF ReminderLess(r, Head(sorted)) THEN << r >> \o sorted
    ELSE << Head(sorted) >> \o InsertSorted(r, Tail(sorted))

RECURSIVE SortReminders(_)
SortReminders(rs) ==
    IF rs = << >> THEN << >>
    ELSE InsertSorted(rs[Len(rs)], SortReminders(SubSeq(rs, 1, Len(rs) - 1)))

\* The words of the labels.
WeeklyLabel ==
    << "W", "e", "e", "k", "l", "y", " ", "s", "u", "m", "m", "a", "r", "y", " ",
       "f", "o", "r", " " >>

MonthlyLabel ==
    << "M", "o", "n", "t", "h", "l", "y", " ", "s", "u", "m", "m", "a", "r", "y", " ",
       "f", "o", "r", " " >>

\* QuarterlyLabel with the text of the loop above it.
MutQuarterlyLabelCopied == MonthlyLabel

QuarterlyLabel ==
    << "Q", "u", "a", "r", "t", "e", "r", "l", "y", " ", "s", "u", "m", "m", "a", "r",
       "y", " ", "f", "o", "r", " " >>

YearlyLabel ==
    << "Y", "e", "a", "r", "l", "y", " ", "s", "u", "m", "m", "a", "r", "y", " ",
       "f", "o", "r", " " >>

\* The dates of the daily notes whose name parses (lines 447-455).
DailyDates(names) ==
    { ParseDay(n).t : n \in { m \in names : ParseDay(m).ok } }

\* PeriodMaps reading the clock a second time, a week later, for the current
\* month, quarter and year.
MutPeriodMapsClockReadTwice(dates, clock) ==
    [weeks    |-> { WeekName(ISOWeek(d)) : d \in dates } \ {WeekName(ISOWeek(clock))},
     months   |-> { FormatMonth(d) : d \in dates } \ {FormatMonth(AddDays(clock, 7))},
     quarters |-> { quarterName(d) : d \in dates } \ {quarterName(AddDays(clock, 7))},
     years    |-> { FormatYear(d) : d \in dates } \ {FormatYear(AddDays(clock, 7))}]

\* PeriodMaps with the current week not left out.
MutPeriodMapsCurrentWeekKept(dates, clock) ==
    [weeks    |-> { WeekName(ISOWeek(d)) : d \in dates },
     months   |-> { FormatMonth(d) : d \in dates } \ {FormatMonth(clock)},
     quarters |-> { quarterName(d) : d \in dates } \ {quarterName(clock)},
     years    |-> { FormatYear(d) : d \in dates } \ {FormatYear(clock)}]

\* PeriodMaps with one test, of the week, deciding for all four maps.
MutPeriodMapsOneTest(dates, clock) ==
    LET past == { d \in dates : WeekName(ISOWeek(d)) # WeekName(ISOWeek(clock)) }
    IN  [weeks    |-> { WeekName(ISOWeek(d)) : d \in past },
         months   |-> { FormatMonth(d) : d \in past },
         quarters |-> { quarterName(d) : d \in past },
         years    |-> { FormatYear(d) : d \in past }]

\* The four maps of periods that have daily entries, the current period of
\* each granularity left out (lines 460-492).
PeriodMaps(dates, clock) ==
    LET currentWeek    == WeekName(ISOWeek(clock))
        currentMonth   == FormatMonth(clock)
        currentQuarter == quarterName(clock)
        currentYear    == FormatYear(clock)
    IN  [weeks    |-> { WeekName(ISOWeek(d)) : d \in dates } \ {currentWeek},
         months   |-> { FormatMonth(d) : d \in dates } \ {currentMonth},
         quarters |-> { quarterName(d) : d \in dates } \ {currentQuarter},
         years    |-> { FormatYear(d) : d \in dates } \ {currentYear}]

\* The orders in which a range loop may visit the keys of a map.
Orders(S) ==
    { s \in [1..Cardinality(S) -> S] : \A i, j \in 1..Cardinality(S) : s[i] = s[j] => i = j }

\* Missing that leaves its loop at the first reminder it appends.
MutMissingFirstOnly(fs, project, category, label, order) ==
    LET miss == { i \in 1..Len(order) : ~NoteExists(fs, project, category, order[i]) }
    IN  IF miss = {} THEN << >>
        ELSE LET i == CHOOSE k \in miss : \A l \in miss : k <= l
             IN  << [Category |-> category, Name |-> order[i],
                     Label |-> label \o order[i]] >>

\* The reminders one range loop appends: one for each visited period without a
\* summary note (lines 496-532).
RECURSIVE Missing(_, _, _, _, _)
Missing(fs, project, category, label, order) ==
    IF order = << >> THEN << >>
    ELSE (IF ~NoteExists(fs, project, category, Head(order))
          THEN << [Category |-> category, Name |-> Head(order),
                   Label |-> label \o Head(order)] >>
          ELSE << >>)
         \o Missing(fs, project, category, label, Tail(order))

\* CheckMissingSummaries that visits the week of every daily note, one visit
\* for each note, where the code ranges over the keys of a map.
MutScanListedPerNote(fs, project, clock, notes, iter) ==
    LET parsed == SelectSeq(notes, LAMBDA n : ParseDay(n).ok)
        weekOf == [i \in 1..Len(parsed) |-> WeekName(ISOWeek(ParseDay(parsed[i]).t))]
        past   == SelectSeq(weekOf, LAMBDA w : w # WeekName(ISOWeek(clock)))
        unsorted ==
            Missing(fs, project, CategoryWeekly, WeeklyLabel, past)
            \o Missing(fs, project, CategoryMonthly, MonthlyLabel, iter.months)
            \o Missing(fs, project, CategoryQuarterly, QuarterlyLabel, iter.quarters)
            \o Missing(fs, project, CategoryYearly, YearlyLabel, iter.years)
    IN  IF Len(notes) = 0 THEN [reminders |-> << >>, err |-> nil]
        ELSE IF parsed = << >> THEN [reminders |-> << >>, err |-> nil]
        ELSE [reminders |-> SortReminders(unsorted), err |-> nil]

\* CheckMissingSummaries after its listing succeeded (lines 443-544).
ScanListed(fs, project, clock, notes, iter) ==
    LET names  == { notes[i] : i \in 1..Len(notes) }
        dates  == DailyDates(names)
        unsorted ==
            Missing(fs, project, CategoryWeekly, WeeklyLabel, iter.weeks)
            \o Missing(fs, project, CategoryMonthly, MonthlyLabel, iter.months)
            \o Missing(fs, project, CategoryQuarterly, QuarterlyLabel, iter.quarters)
            \o Missing(fs, project, CategoryYearly, YearlyLabel, iter.years)
    IN  IF Len(notes) = 0 THEN [reminders |-> << >>, err |-> nil]
        ELSE IF dates = {} THEN [reminders |-> << >>, err |-> nil]
        ELSE [reminders |-> SortReminders(unsorted), err |-> nil]

\* CheckMissingSummaries with the listing's error dropped.
MutCheckMissingSummariesErrDropped(fs, project, clock, dirOk, iter) ==
    ScanListed(fs, project, clock, ListNotes(fs, project, CategoryDaily, dirOk).notes, iter)

\* CheckMissingSummaries(project), for the outcome dirOk of the directory
\* listing, the clock reading `clock` and the map iteration orders `iter`.
CheckMissingSummaries(fs, project, clock, dirOk, iter) ==
    LET listed == ListNotes(fs, project, CategoryDaily, dirOk)
    IN  IF listed.err # nil THEN [reminders |-> << >>, err |-> listed.err]
        ELSE ScanListed(fs, project, clock, listed.notes, iter)

\* The iteration orders possible for a scan of `project` at `clock`.
IterOrders(fs, project, clock) ==
    LET maps == PeriodMaps(DailyDates(DirNames(fs, project, CategoryDaily)), clock)
    IN  { [weeks |-> w, months |-> m, quarters |-> q, years |-> y] :
            w \in Orders(maps.weeks), m \in Orders(maps.months),
            q \in Orders(maps.quarters), y \in Orders(maps.years) }

(***************************************************************************)
(* Reference content (GatherReferenceContent)                              *)
(***************************************************************************)

\* fmt.Sscanf, verb %d, on the input s: spaces are skipped, then an optional
\* sign and at least one decimal digit are read; rest is the input left.
DigitRun(s) ==
    IF \E i \in 1..Len(s) : ~isDigit(s[i])
    THEN (CHOOSE i \in 1..Len(s) : ~isDigit(s[i]) /\ \A j \in 1..(i - 1) : isDigit(s[j])) - 1
    ELSE Len(s)

RECURSIVE SkipSpace(_)
SkipSpace(s) == IF s # << >> /\ Head(s) = " " THEN SkipSpace(Tail(s)) ELSE s

ScanInt(s) ==
    LET t      == SkipSpace(s)
        signed == t # << >> /\ Head(t) \in { "+", "-" }
        u      == IF signed THEN Tail(t) ELSE t
        n      == DigitRun(u)
    IN  IF n = 0 THEN [ok |-> FALSE, value |-> 0, rest |-> u]
        ELSE [ok    |-> TRUE,
              value |-> IF signed /\ Head(t) = "-" THEN 0 - Atoi(SubSeq(u, 1, n))
                        ELSE Atoi(SubSeq(u, 1, n)),
              rest  |-> SubSeq(u, n + 1, Len(u))]

\* fmt.Sscanf(name, "%d-" + letter + "%d", &a, &b): the two numbers, or an
\* error. Input after the second number is not read.
ScanPair(name, letter) ==
    LET a == ScanInt(name)
        lit == a.ok /\ Len(a.rest) >= 2 /\ a.rest[1] = "-" /\ a.rest[2] = letter
        b == IF lit THEN ScanInt(SubSeq(a.rest, 3, Len(a.rest)))
             ELSE [ok |-> FALSE, value |-> 0, rest |-> << >>]
    IN  [ok |-> lit /\ b.ok, a |-> a.value, b |-> b.value]

\* time.Date(y, m, d, 0, 0, 0, 0, time.Local) and AddDate on it, in the zone
\* `zone`: the local time that day `day` at hour `hour` names. A midnight the
\* zone skips (a day of zone.gaps) is 23:00 of the day before, as Date
\* computes it in a zone west of Greenwich.
LocalTime(day, hour, zone) ==
    IF hour = 0 /\ day \in zone.gaps THEN [day |-> day - 1, hour |-> 23]
    ELSE [day |-> day, hour |-> hour]

\* t.AddDate(0, 0, n) for a local time t.
AddDate(t, n, zone) == LocalTime(t.day + n, t.hour, zone)

\* The weekday of a local time with Sunday left as 0.
MutISOWeekdaySundayZero(t) == Weekday(t.day)

\* The weekday of a local time, Monday 1 to Sunday 7.
ISOWeekday(t) == IF Weekday(t.day) = 0 THEN 7 ELSE Weekday(t.day)

\* The Monday of ISO week `week` of the year whose January 4 is jan4: the
\* Monday of the week of January 4, plus (week - 1) * 7 days.
MondayOfWeek(jan4, week, zone) ==
    AddDate(AddDate(jan4, 0 - (ISOWeekday(jan4) - 1), zone), (week - 1) * 7, zone)

\* mondayOfISOWeek(name).
mondayOfISOWeek(name, zone) ==
    LET scanned == ScanPair(name, "W")
    IN  IF ~scanned.ok
        THEN [err |-> "input does not match format", monday |-> [day |-> 0, hour |-> 0]]
        ELSE [err    |-> nil,
              monday |-> MondayOfWeek(LocalTime(Date(scanned.a, 1, 4), 0, zone),
                                      scanned.b, zone)]

\* time.Weekday.String().
WeekdayString(w) ==
    << << "S", "u", "n", "d", "a", "y" >>,
       << "M", "o", "n", "d", "a", "y" >>,
       << "T", "u", "e", "s", "d", "a", "y" >>,
       << "W", "e", "d", "n", "e", "s", "d", "a", "y" >>,
       << "T", "h", "u", "r", "s", "d", "a", "y" >>,
       << "F", "r", "i", "d", "a", "y" >>,
       << "S", "a", "t", "u", "r", "d", "a", "y" >> >>[w + 1]

\* time.Month.String(): the name of a month, "%!Month(n)" outside 1..12.
MonthString(n) ==
    IF n \in 1..12
    THEN << << "J", "a", "n", "u", "a", "r", "y" >>,
            << "F", "e", "b", "r", "u", "a", "r", "y" >>,
            << "M", "a", "r", "c", "h" >>,
            << "A", "p", "r", "i", "l" >>,
            << "M", "a", "y" >>,
            << "J", "u", "n", "e" >>,
            << "J", "u", "l", "y" >>,
            << "A", "u", "g", "u", "s", "t" >>,
            << "S", "e", "p", "t", "e", "m", "b", "e", "r" >>,
            << "O", "c", "t", "o", "b", "e", "r" >>,
            << "N", "o", "v", "e", "m", "b", "e", "r" >>,
            << "D", "e", "c", "e", "m", "b", "e", "r" >> >>[n]
    ELSE << "%", "!", "M", "o", "n", "t", "h", "(" >> \o Itoa(n) \o << ")" >>

NoDailyEntries == << "(", "n", "o", " ", "d", "a", "i", "l", "y", " ", "e", "n", "t", "r", "i", "e", "s", " ", "f", "o", "r", " ", "t", "h", "i", "s", " ", "w", "e", "e", "k", ")" >>

NoWeeklySummaries == << "(", "n", "o", " ", "w", "e", "e", "k", "l", "y", " ", "s", "u", "m", "m", "a", "r", "i", "e", "s", " ", "f", "o", "r", " ", "t", "h", "i", "s", " ", "m", "o", "n", "t", "h", ")" >>

NoSummary == << "(", "n", "o", " ", "s", "u", "m", "m", "a", "r", "y", ")" >>

\* strings.Join(parts, "\n\n").
RECURSIVE Join(_)
Join(parts) ==
    IF parts = << >> THEN << >>
    ELSE IF Len(parts) = 1 THEN parts[1]
    ELSE parts[1] \o << "\n", "\n" >> \o Join(Tail(parts))

\* The rune U+2500 (box drawings light horizontal) of the headers.
Rule == "U+2500"

\* What a gather returns, with the notes it read, in order, and the blocks
\* it had collected (parts) when it returned.
Gathered(content, err, reads) ==
    [content |-> content, err |-> err, reads |-> reads, parts |-> << >>]

\* header + "\n" + content, for a header with a word in parentheses and for
\* one without.
WordBlock(name, word, content) ==
    << Rule, Rule, " " >> \o name \o << " ", "(" >> \o word \o << ")", " ", Rule, Rule, "\n" >> \o content

Block(name, content) ==
    << Rule, Rule, " " >> \o name \o << " ", Rule, Rule, "\n" >> \o content

\* The loop of a gather over the child notes `names` (with the words of their
\* headers, or no words): every read is ReadNote, the failAt-th read fails
\* (failAt = 0: none does). `always` tells whether a child without content
\* gets a "(no summary)" block.
RECURSIVE GatherLoop(_, _, _, _, _, _, _, _, _)

\* The loop returning, with the error of a failed read, the blocks collected
\* before it.
MutGatherLoopPartial(fs, project, category, names, words, always, failAt, parts, reads) ==
    IF names = << >> THEN [Gathered(Join(parts), nil, reads) EXCEPT !.parts = parts]
    ELSE LET read == ReadNote(fs, project, category, Head(names), failAt # Len(reads) + 1)
             seen == Append(reads, notePath(project, category, Head(names)))
             body == IF read.content # << >> THEN read.content ELSE NoSummary
             part == IF words = << >> THEN Block(Head(names), body)
                     ELSE WordBlock(Head(names), Head(words), body)
             rest == IF words = << >> THEN << >> ELSE Tail(words)
         IN  IF read.err # nil THEN Gathered(Join(parts), read.err, seen)
             ELSE IF read.content # << >> \/ always
             THEN GatherLoop(fs, project, category, Tail(names), rest, always, failAt,
                             Append(parts, part), seen)
             ELSE GatherLoop(fs, project, category, Tail(names), rest, always, failAt,
                             parts, seen)

GatherLoop(fs, project, category, names, words, always, failAt, parts, reads) ==
    IF names = << >> THEN [Gathered(Join(parts), nil, reads) EXCEPT !.parts = parts]
    ELSE LET read == ReadNote(fs, project, category, Head(names), failAt # Len(reads) + 1)
             seen == Append(reads, notePath(project, category, Head(names)))
             body == IF read.content # << >> THEN read.content ELSE NoSummary
             part == IF words = << >> THEN Block(Head(names), body)
                     ELSE WordBlock(Head(names), Head(words), body)
             rest == IF words = << >> THEN << >> ELSE Tail(words)
         IN  IF read.err # nil THEN Gathered(<< >>, read.err, seen)
             ELSE IF read.content # << >> \/ always
             THEN GatherLoop(fs, project, category, Tail(names), rest, always, failAt,
                             Append(parts, part), seen)
             ELSE GatherLoop(fs, project, category, Tail(names), rest, always, failAt,
                             parts, seen)

\* The seven local times monday.AddDate(0, 0, i), i = 0..6.
WeekDays(monday, zone) == [i \in 1..7 |-> AddDate(monday, i - 1, zone)]

\* The loop of gatherDailyForWeek over the seven local times `days`.
DailyLoop(fs, project, days, failAt) ==
    GatherLoop(fs, project, CategoryDaily,
               [i \in 1..7 |-> FormatDay(days[i].day)],
               [i \in 1..7 |-> WeekdayString(Weekday(days[i].day))],
               FALSE, failAt, << >>, << >>)

\* The end of a gather that returns no placeholder.
MutOrPlaceholderNone(loop, none) == loop

\* The end of a gather: the placeholder `none` if no block was collected.
OrPlaceholder(loop, none) ==
    IF loop.err = nil /\ loop.parts = << >> THEN Gathered(none, nil, loop.reads)
    ELSE loop

\* gatherDailyForWeek.
gatherDailyForWeek(fs, project, name, zone, failAt) ==
    LET parsed == mondayOfISOWeek(name, zone)
    IN  IF parsed.err # nil THEN Gathered(<< >>, "could not parse week", << >>)
        ELSE OrPlaceholder(DailyLoop(fs, project, WeekDays(parsed.monday, zone), failAt),
                           NoDailyEntries)

\* time.Parse("2006-01", s): four digits, '-', two digits, nothing after; the
\* month in 1..12.
ParseMonth(s) ==
    LET shape == /\ Len(s) = 7
                 /\ \A i \in {1, 2, 3, 4, 6, 7} : isDigit(s[i])
                 /\ s[5] = "-"
        y == Atoi(SubSeq(s, 1, 4))
        m == Atoi(SubSeq(s, 6, 7))
    IN  IF shape /\ m \in 1..12
        THEN [ok |-> TRUE, year |-> y, month |-> m]
        ELSE [ok |-> FALSE, year |-> 0, month |-> 0]

\* The walk over the days of the month stopping a day short of the last.
RECURSIVE MutWeekNamesFromShort(_, _, _)
MutWeekNamesFromShort(d, end, seen) ==
    IF d >= end THEN seen
    ELSE IF \E i \in 1..Len(seen) : seen[i] = WeekName(ISOWeek(d))
    THEN MutWeekNamesFromShort(d + 1, end, seen)
    ELSE MutWeekNamesFromShort(d + 1, end, Append(seen, WeekName(ISOWeek(d))))

\* The names of the ISO weeks of the days d .. end of a month, each once, in
\* the order the days meet them.
RECURSIVE WeekNamesFrom(_, _, _)
WeekNamesFrom(d, end, seen) ==
    IF d > end THEN seen
    ELSE IF \E i \in 1..Len(seen) : seen[i] = WeekName(ISOWeek(d))
    THEN WeekNamesFrom(d + 1, end, seen)
    ELSE WeekNamesFrom(d + 1, end, Append(seen, WeekName(ISOWeek(d))))

\* gatherWeeklyForMonth with the weeks that have no content left out.
MutGatherWeeklyForMonthFiltered(fs, project, name, failAt) ==
    LET parsed == ParseMonth(name)
        weekNames == WeekNamesFrom(Date(parsed.year, parsed.month, 1),
                                   Date(parsed.year, parsed.month + 1, 0), << >>)
        loop == GatherLoop(fs, project, CategoryWeekly, weekNames, << >>,
                           FALSE, failAt, << >>, << >>)
    IN  IF ~parsed.ok THEN Gathered(<< >>, "could not parse month", << >>)
        ELSE IF loop.err = nil /\ loop.content = << >>
        THEN Gathered(NoWeeklySummaries, nil, loop.reads)
        ELSE loop

\* gatherWeeklyForMonth.
gatherWeeklyForMonth(fs, project, name, failAt) ==
    LET parsed == ParseMonth(name)
        weekNames == WeekNamesFrom(Date(parsed.year, parsed.month, 1),
                                   Date(parsed.year, parsed.month + 1, 0), << >>)
        loop == GatherLoop(fs, project, CategoryWeekly, weekNames, << >>,
                           TRUE, failAt, << >>, << >>)
    IN  IF ~parsed.ok THEN Gathered(<< >>, "could not parse month", << >>)
        ELSE IF loop.err = nil /\ weekNames = << >>
        THEN Gathered(NoWeeklySummaries, nil, loop.reads)
        ELSE loop

\* gatherMonthlyForQuarter.
gatherMonthlyForQuarter(fs, project, name, failAt) ==
    LET scanned    == ScanPair(name, "Q")
        startMonth == (scanned.b - 1) * 3 + 1
    IN  IF ~scanned.ok THEN Gathered(<< >>, "could not parse quarter", << >>)
        ELSE GatherLoop(fs, project, CategoryMonthly,
                        [i \in 1..3 |-> Itoa(scanned.a) \o << "-" >> \o PadInt(startMonth + i - 1, 2)],
                        [i \in 1..3 |-> MonthString(startMonth + i - 1)],
                        TRUE, failAt, << >>, << >>)

\* gatherQuarterlyForYear.
gatherQuarterlyForYear(fs, project, name, failAt) ==
    LET scanned == ScanInt(name)
    IN  IF ~scanned.ok THEN Gathered(<< >>, "could not parse year", << >>)
        ELSE GatherLoop(fs, project, CategoryQuarterly,
                        [q \in 1..4 |-> Itoa(scanned.value) \o << "-", "Q" >> \o Itoa(q)],
                        << >>, TRUE, failAt, << >>, << >>)

\* GatherReferenceContent.
GatherReferenceContent(fs, project, category, name, zone, failAt) ==
    IF category = CategoryWeekly THEN gatherDailyForWeek(fs, project, name, zone, failAt)
    ELSE IF category = CategoryMonthly THEN gatherWeeklyForMonth(fs, project, name, failAt)
    ELSE IF category = CategoryQuarterly THEN gatherMonthlyForQuarter(fs, project, name, failAt)
    ELSE IF category = CategoryYearly THEN gatherQuarterlyForYear(fs, project, name, failAt)
    ELSE Gathered(<< >>, nil, << >>)

(***************************************************************************)
(* The terminal interface: the model, its commands and its Update          *)
(***************************************************************************)

screenProjectList == "screenProjectList"

screenProjectView == "screenProjectView"

screenNoteList == "screenNoteList"

screenEdit == "screenEdit"

\* The menu of the project view.
menuItems ==
    << [key |-> "e", category |-> CategoryDaily],
       [key |-> "d", category |-> CategoryDaily],
       [key |-> "w", category |-> CategoryWeekly],
       [key |-> "m", category |-> CategoryMonthly],
       [key |-> "Q", category |-> CategoryQuarterly],
       [key |-> "y", category |-> CategoryYearly] >>

\* NewModel: the fields of Model that the project list, the project view, the
\* note list and the editor use. Cursors count from 0, as in the code;
\* editText is the value of editTextarea.
NewModel ==
    [screen              |-> screenProjectList,
     projects            |-> << >>,
     projectCursor       |-> 0,
     currentProject      |-> "",
     menuCursor          |-> 0,
     todayNote           |-> << >>,
     todayNoteRendered   |-> << >>,
     reminders           |-> << >>,
     noteCategory        |-> "",
     notes               |-> << >>,
     noteCursor          |-> 0,
     previewNote         |-> << >>,
     previewNoteRendered |-> << >>,
     statusMsg           |-> << >>,
     statusErr           |-> FALSE,
     err                 |-> nil,
     editCategory        |-> "",
     editNoteName        |-> << >>,
     editText            |-> << >>,
     editDirty           |-> FALSE,
     editRef             |-> << >>,
     editRefRendered     |-> << >>,
     editFocusLeft       |-> FALSE]

\* ListProjects: the project directories, sorted, or an error when the root
\* cannot be read. `dirs` is the sorted list of the directories on disk.
ListProjects(dirs, dirOk) ==
    IF ~dirOk
    THEN [projects |-> << >>, err |-> "could not read teatime directory"]
    ELSE [projects |-> dirs, err |-> nil]

\* TodayName: time.Now().Format("2006-01-02").
TodayName(clock) == FormatDay(clock)

\* DefaultNameForCategory: the name of the current period of the category.
DefaultNameForCategory(category, clock) ==
    IF category = CategoryWeekly THEN WeekName(ISOWeek(clock))
    ELSE IF category = CategoryMonthly THEN FormatMonth(clock)
    ELSE IF category = CategoryQuarterly THEN quarterName(clock)
    ELSE IF category = CategoryYearly THEN FormatYear(clock)
    ELSE TodayName(clock)

\* renderMarkdown: nothing for no content, else the renderer's output, the
\* content in terminal styling.
renderMarkdown(content) ==
    IF content = << >> THEN << >> ELSE << "styled" >> \o content

\* A command: the function value a handler returns, with what it captured.
Cmd(cmd) ==
    [cmd |-> cmd, project |-> "", category |-> "", name |-> << >>,
     target |-> "", content |-> << >>]

loadProjects == Cmd("loadProjects")

loadTodayNote(mm) == [Cmd("loadTodayNote") EXCEPT !.project = mm.currentProject]

loadReminders(mm) == [Cmd("loadReminders") EXCEPT !.project = mm.currentProject]

loadNoteContent(project, category, name, target) ==
    [Cmd("loadNoteContent") EXCEPT !.project = project, !.category = category,
                                  !.name = name, !.target = target]

listNotes(project, category) ==
    [Cmd("listNotes") EXCEPT !.project = project, !.category = category]

renderMarkdownCmd(content, target) ==
    [Cmd("renderMarkdownCmd") EXCEPT !.content = content, !.target = target]

loadReferenceContent(project, category, name) ==
    [Cmd("loadReferenceContent") EXCEPT !.project = project, !.category = category,
                                       !.name = name]

saveNote(project, category, name, content) ==
    [Cmd("saveNote") EXCEPT !.project = project, !.category = category,
                           !.name = name, !.content = content]

\* editTextarea.Cursor.BlinkCmd(): the command that sends the cursor's blink.
BlinkCmd == Cmd("BlinkCmd")

\* tea.Batch: the commands of a list, each to be run on its own.
Batch(cs) ==
    [c \in { cs[i] : i \in DOMAIN cs } |-> Cardinality({ i \in DOMAIN cs : cs[i] = c })]

\* A message: the value a command returns.
Msg(type) ==
    [type |-> type, projects |-> << >>, reminders |-> << >>, notes |-> << >>,
     content |-> << >>, target |-> "", err |-> nil]

\* The message of loadReferenceContent, from what the gather returned.
refContentLoadedMsg(gathered) ==
    [Msg("refContentLoadedMsg") EXCEPT !.content = gathered.content, !.err = gathered.err]

\* The message a command returns when it runs against the files fs at the
\* clock reading `clock`; ok is the outcome of its access to the disk (for a
\* gather, of its first read), iter the map iteration orders of a reminder
\* scan, zone the zone of time.Local.
RunCommand(c, fs, dirs, clock, ok, iter, zone) ==
    IF c.cmd = "loadProjects"
    THEN [Msg("projectsLoadedMsg") EXCEPT
            !.projects = ListProjects(dirs, ok).projects,
            !.err = ListProjects(dirs, ok).err]
    ELSE IF c.cmd = "loadTodayNote"
    THEN [Msg("noteLoadedMsg") EXCEPT
            !.content = ReadNote(fs, c.project, CategoryDaily, TodayName(clock), ok).content,
            !.target = "today",
            !.err = ReadNote(fs, c.project, CategoryDaily, TodayName(clock), ok).err]
    ELSE IF c.cmd = "loadNoteContent"
    THEN [Msg("noteLoadedMsg") EXCEPT
            !.content = ReadNote(fs, c.project, c.category, c.name, ok).content,
            !.target = c.target,
            !.err = ReadNote(fs, c.project, c.category, c.name, ok).err]
    ELSE IF c.cmd = "listNotes"
    THEN [Msg("notesListedMsg") EXCEPT
            !.notes = ListNotes(fs, c.project, c.category, ok).notes,
            !.err = ListNotes(fs, c.project, c.category, ok).err]
    ELSE IF c.cmd = "loadReminders"
    THEN [Msg("remindersLoadedMsg") EXCEPT
            !.reminders = CheckMissingSummaries(fs, c.project, clock, ok, iter).reminders,
            !.err = CheckMissingSummaries(fs, c.project, clock, ok, iter).err]
    ELSE IF c.cmd = "loadReferenceContent"
    THEN refContentLoadedMsg(GatherReferenceContent(fs, c.project, c.category, c.name, zone,
                                                    IF ok THEN 0 ELSE 1))
    ELSE IF c.cmd = "saveNote"
    THEN [Msg("noteSavedMsg") EXCEPT !.err = IF ok THEN nil ELSE "could not write note"]
    ELSE IF c.cmd = "BlinkCmd"
    THEN Msg("blinkMsg")
    ELSE [Msg("markdownRenderedMsg") EXCEPT
            !.content = renderMarkdown(c.content),
            !.target = c.target]

\* The files after a command ran: saveNote writes its note if the disk lets
\* it, and the commands that list notes make the directory they list.
FilesAfter(c, fs, ok) ==
    IF c.cmd = "saveNote" /\ ok
    THEN WriteFile(fs, notePath(c.project, c.category, c.name), c.content)
    ELSE IF c.cmd = "listNotes" THEN MkdirAll(fs, c.project, c.category, ok)
    ELSE IF c.cmd = "loadReminders" THEN MkdirAll(fs, c.project, CategoryDaily, ok)
    ELSE fs

\* What Update returns: the new model and the commands to run; quit is the
\* command tea.Quit.
Updated(mm, cs) == [m |-> mm, cmds |-> Batch(cs), quit |-> FALSE]

Quit(mm) == [m |-> mm, cmds |-> Batch(<< >>), quit |-> TRUE]

\* Update, case projectsLoadedMsg.
Update_projectsLoadedMsg(mm, msg) ==
    Updated([mm EXCEPT !.projects = msg.projects, !.err = msg.err], << >>)

totalProjectViewItems(mm) == Len(mm.reminders) + Len(menuItems)

\* Update, case remindersLoadedMsg, with the cursor left where it was.
MutRemindersLoadedNoClamp(mm, msg) ==
    Updated([mm EXCEPT !.reminders = msg.reminders], << >>)

\* Update, case remindersLoadedMsg: the error of the message is not read.
Update_remindersLoadedMsg(mm, msg) ==
    LET loaded == [mm EXCEPT !.reminders = msg.reminders]
        total  == totalProjectViewItems(loaded)
    IN  IF loaded.menuCursor >= total /\ total > 0
        THEN Updated([loaded EXCEPT !.menuCursor = total - 1], << >>)
        ELSE Updated(loaded, << >>)

\* Update, case markdownRenderedMsg.
Update_markdownRenderedMsg(mm, msg) ==
    IF msg.target = "today"
    THEN Updated([mm EXCEPT !.todayNoteRendered = msg.content], << >>)
    ELSE IF msg.target = "preview"
    THEN Updated([mm EXCEPT !.previewNoteRendered = msg.content], << >>)
    ELSE IF msg.target = "edit"
    THEN Updated([mm EXCEPT !.editRefRendered = msg.content], << >>)
    ELSE Updated(mm, << >>)

\* Update, case refContentLoadedMsg.
Update_refContentLoadedMsg(mm, msg) ==
    LET loaded == [mm EXCEPT
                     !.editRef = IF msg.err # nil
                                 THEN << "(error loading reference: ", msg.err, ")" >>
                                 ELSE msg.content,
                     !.editRefRendered = << >>]
    IN  Updated(loaded, << renderMarkdownCmd(loaded.editRef, "edit") >>)

\* Update, case noteSavedMsg.
Update_noteSavedMsg(mm, msg) ==
    IF msg.err # nil
    THEN Updated([mm EXCEPT !.statusMsg = << "Error saving: ", msg.err >>,
                            !.statusErr = TRUE], << >>)
    ELSE LET saved == [mm EXCEPT !.statusMsg = << "Saved" >>, !.statusErr = FALSE,
                                 !.editDirty = FALSE]
         IN  Updated(saved, << loadTodayNote(saved), loadReminders(saved) >>)

\* Update, case noteLoadedMsg.
Update_noteLoadedMsg(mm, msg) ==
    IF msg.err # nil
    THEN Updated([mm EXCEPT !.statusMsg = << "Error loading note: ", msg.err >>,
                            !.statusErr = TRUE], << >>)
    ELSE IF msg.target = "today"
    THEN Updated([mm EXCEPT !.todayNote = msg.content, !.todayNoteRendered = << >>],
                 << renderMarkdownCmd(msg.content, "today") >>)
    ELSE IF msg.target = "preview"
    THEN Updated([mm EXCEPT !.previewNote = msg.content, !.previewNoteRendered = << >>],
                 << renderMarkdownCmd(msg.content, "preview") >>)
    ELSE IF msg.target = "edit"
    THEN Updated([mm EXCEPT !.editText = msg.content, !.editDirty = FALSE], << >>)
    ELSE Updated(mm, << >>)

\* Update, case notesListedMsg, with the error of the listing not read.
MutNotesListedErrNotRead(mm, msg) ==
    LET listed == [mm EXCEPT !.notes = msg.notes, !.noteCursor = 0,
                             !.previewNote = << >>, !.previewNoteRendered = << >>]
    IN  IF Len(listed.notes) > 0
        THEN Updated(listed, << loadNoteContent(listed.currentProject, listed.noteCategory,
                                                listed.notes[1], "preview") >>)
        ELSE Updated(listed, << >>)

\* Update, case notesListedMsg.
Update_notesListedMsg(mm, msg) ==
    IF msg.err # nil
    THEN Updated([mm EXCEPT !.statusMsg = << "Error listing notes: ", msg.err >>,
                            !.statusErr = TRUE], << >>)
    ELSE LET listed == [mm EXCEPT !.notes = msg.notes, !.noteCursor = 0,
                                  !.previewNote = << >>, !.previewNoteRendered = << >>]
         IN  IF Len(listed.notes) > 0
             THEN Updated(listed, << loadNoteContent(listed.currentProject, listed.noteCategory,
                                                     listed.notes[1], "preview") >>)
             ELSE Updated(listed, << >>)

\* updateProjectList, for a key other than "n" (which creates a project).
updateProjectList(mm, key) ==
    IF key \in { "q", "ctrl+c" } THEN Quit(mm)
    ELSE IF key = "up"
    THEN Updated(IF mm.projectCursor > 0
                 THEN [mm EXCEPT !.projectCursor = mm.projectCursor - 1] ELSE mm, << >>)
    ELSE IF key = "down"
    THEN Updated(IF mm.projectCursor < Len(mm.projects) - 1
                 THEN [mm EXCEPT !.projectCursor = mm.projectCursor + 1] ELSE mm, << >>)
    ELSE IF key = "enter" /\ Len(mm.projects) > 0
    THEN LET entered == [mm EXCEPT !.currentProject = mm.projects[mm.projectCursor + 1],
                                   !.screen = screenProjectView,
                                   !.menuCursor = 0,
                                   !.statusMsg = << >>,
                                   !.reminders = << >>]
         IN  Updated(entered, << loadTodayNote(entered), loadReminders(entered) >>)
    ELSE Updated(mm, << >>)

\* enterNoteList.
enterNoteList(mm, category) ==
    Updated([mm EXCEPT !.screen = screenNoteList,
                       !.noteCategory = category,
                       !.noteCursor = 0,
                       !.previewNote = << >>,
                       !.statusMsg = << >>],
            << listNotes(mm.currentProject, category) >>)

\* enterEditMode: the textarea keeps its value until the note is loaded; the
\* reference of a note that is not daily is gathered.
enterEditMode(mm, category, name) ==
    LET entered == [mm EXCEPT !.screen = screenEdit,
                              !.editCategory = category,
                              !.editNoteName = name,
                              !.editDirty = FALSE,
                              !.editRef = << >>,
                              !.editFocusLeft = TRUE,
                              !.statusMsg = << >>]
        hasSplitPane == category # CategoryDaily
    IN  Updated(entered,
                << loadNoteContent(entered.currentProject, category, name, "edit"), BlinkCmd >>
                  \o IF hasSplitPane
                     THEN << loadReferenceContent(entered.currentProject, category, name) >>
                     ELSE << >>)

\* handleMenuSelect opening the first reminder whatever reminder the cursor
\* is on.
MutHandleMenuSelectFirst(mm, clock) ==
    LET menuIdx == mm.menuCursor - Len(mm.reminders)
    IN  IF mm.menuCursor < Len(mm.reminders)
        THEN enterEditMode(mm, mm.reminders[1].Category, mm.reminders[1].Name)
        ELSE IF menuIdx >= 0 /\ menuIdx < Len(menuItems)
        THEN IF menuItems[menuIdx + 1].key = "e"
             THEN enterEditMode(mm, CategoryDaily, TodayName(clock))
             ELSE enterNoteList(mm, menuItems[menuIdx + 1].category)
        ELSE Updated(mm, << >>)

\* handleMenuSelect.
handleMenuSelect(mm, clock) ==
    LET menuIdx == mm.menuCursor - Len(mm.reminders)
    IN  IF mm.menuCursor < Len(mm.reminders)
        THEN enterEditMode(mm, mm.reminders[mm.menuCursor + 1].Category,
                           mm.reminders[mm.menuCursor + 1].Name)
        ELSE IF menuIdx >= 0 /\ menuIdx < Len(menuItems)
        THEN IF menuItems[menuIdx + 1].key = "e"
             THEN enterEditMode(mm, CategoryDaily, TodayName(clock))
             ELSE enterNoteList(mm, menuItems[menuIdx + 1].category)
        ELSE Updated(mm, << >>)

\* updateProjectView, for a key.
updateProjectView(mm, key, clock) ==
    IF key \in { "q", "ctrl+c" } THEN Quit(mm)
    ELSE IF key \in { "b", "esc" }
    THEN Updated([mm EXCEPT !.screen = screenProjectList, !.statusMsg = << >>], << >>)
    ELSE IF key = "up"
    THEN Updated(IF mm.menuCursor > 0
                 THEN [mm EXCEPT !.menuCursor = mm.menuCursor - 1] ELSE mm, << >>)
    ELSE IF key = "down"
    THEN Updated(IF mm.menuCursor < totalProjectViewItems(mm) - 1
                 THEN [mm EXCEPT !.menuCursor = mm.menuCursor + 1] ELSE mm, << >>)
    ELSE IF key = "enter" THEN handleMenuSelect(mm, clock)
    ELSE IF key = "e" THEN enterEditMode(mm, CategoryDaily, TodayName(clock))
    ELSE IF \E i \in 2..Len(menuItems) : menuItems[i].key = key
    THEN enterNoteList(mm, menuItems[CHOOSE i \in 2..Len(menuItems) : menuItems[i].key = key].category)
    ELSE Updated(mm, << >>)

\* updateNoteList, for a key.
updateNoteList(mm, key, clock) ==
    IF key \in { "q", "ctrl+c" } THEN Quit(mm)
    ELSE IF key \in { "b", "esc" }
    THEN Updated([mm EXCEPT !.screen = screenProjectView, !.statusMsg = << >>], << >>)
    ELSE IF key = "up" /\ mm.noteCursor > 0
    THEN LET moved == [mm EXCEPT !.noteCursor = mm.noteCursor - 1]
         IN  IF Len(moved.notes) > 0
             THEN Updated(moved, << loadNoteContent(moved.currentProject, moved.noteCategory,
                                                    moved.notes[moved.noteCursor + 1], "preview") >>)
             ELSE Updated(moved, << >>)
    ELSE IF key = "down" /\ mm.noteCursor < Len(mm.notes) - 1
    THEN LET moved == [mm EXCEPT !.noteCursor = mm.noteCursor + 1]
         IN  Updated(moved, << loadNoteContent(moved.currentProject, moved.noteCategory,
                                               moved.notes[moved.noteCursor + 1], "preview") >>)
    ELSE IF key \in { "enter", "e" } /\ Len(mm.notes) > 0
    THEN enterEditMode(mm, mm.noteCategory, mm.notes[mm.noteCursor + 1])
    ELSE IF key = "n"
    THEN enterEditMode(mm, mm.noteCategory, DefaultNameForCategory(mm.noteCategory, clock))
    ELSE Updated(mm, << >>)

\* The keys that are one character, which the textarea inserts.
RuneKeys == { "q", "b", "d", "w", "m", "Q", "y", "e", "n", "j", "k", "x" }

\* editTextarea.Update for a key: the value with the character typed; "enter"
\* types a line break, and keys that move the cursor type nothing.
TextareaUpdate(text, key) ==
    IF key \in RuneKeys THEN Append(text, key)
    ELSE IF key = "enter" THEN Append(text, "\n")
    ELSE text

\* updateEdit with ctrl+c saving the note as esc does.
MutUpdateEditCtrlCSaves(mm, key) ==
    IF key \in { "esc", "ctrl+c" }
    THEN Updated([mm EXCEPT !.screen = screenProjectView],
                 << saveNote(mm.currentProject, mm.editCategory, mm.editNoteName,
                             mm.editText) >>)
    ELSE IF key = "tab" /\ mm.editCategory # CategoryDaily
    THEN Updated([mm EXCEPT !.editFocusLeft = ~mm.editFocusLeft], << >>)
    ELSE IF mm.editFocusLeft
    THEN Updated([mm EXCEPT !.editText = TextareaUpdate(mm.editText, key),
                            !.editDirty = TRUE], << >>)
    ELSE Updated(mm, << >>)

\* updateEdit, for a key.
updateEdit(mm, key) ==
    LET hasSplitPane == mm.editCategory # CategoryDaily
    IN  IF key = "esc"
        THEN Updated([mm EXCEPT !.screen = screenProjectView],
                     << saveNote(mm.currentProject, mm.editCategory, mm.editNoteName,
                                 mm.editText) >>)
        ELSE IF key = "ctrl+c"
        THEN Updated([mm EXCEPT !.screen = screenProjectView,
                                !.statusMsg = << "Edit cancelled" >>,
                                !.statusErr = FALSE], << >>)
        ELSE IF key = "tab" /\ hasSplitPane
        THEN Updated([mm EXCEPT !.editFocusLeft = ~mm.editFocusLeft], << >>)
        ELSE IF mm.editFocusLeft
        THEN Updated([mm EXCEPT !.editText = TextareaUpdate(mm.editText, key),
                                !.editDirty = TRUE], << >>)
        ELSE Updated(mm, << >>)

\* Update for a message that is neither a key nor a case of Update (the
\* cursor's blink): the screens other than the editor ignore it; updateEdit
\* hands it to the focused textarea and sets editDirty. The textarea's next
\* blink is left out: it would repeat this one.
updateOther(mm) ==
    IF mm.screen = screenEdit /\ mm.editFocusLeft
    THEN Updated([mm EXCEPT !.editDirty = TRUE], << >>)
    ELSE Updated(mm, << >>)

\* Update: the cases by message type, then the active screen. `clock` is the
\* reading of time.Now() in the handlers that name the current period.
Update(mm, msg, clock) ==
    IF msg.type = "projectsLoadedMsg" THEN Update_projectsLoadedMsg(mm, msg)
    ELSE IF msg.type = "remindersLoadedMsg" THEN Update_remindersLoadedMsg(mm, msg)
    ELSE IF msg.type = "refContentLoadedMsg" THEN Update_refContentLoadedMsg(mm, msg)
    ELSE IF msg.type = "markdownRenderedMsg" THEN Update_markdownRenderedMsg(mm, msg)
    ELSE IF msg.type = "noteLoadedMsg" THEN Update_noteLoadedMsg(mm, msg)
    ELSE IF msg.type = "notesListedMsg" THEN Update_notesListedMsg(mm, msg)
    ELSE IF msg.type = "noteSavedMsg" THEN Update_noteSavedMsg(mm, msg)
    ELSE IF msg.type # "KeyMsg" THEN updateOther(mm)
    ELSE IF mm.screen = screenProjectList THEN updateProjectList(mm, msg.key)
    ELSE IF mm.screen = screenProjectView THEN updateProjectView(mm, msg.key, clock)
    ELSE IF mm.screen = screenNoteList THEN updateNoteList(mm, msg.key, clock)
    ELSE updateEdit(mm, msg.key)

\* viewEdit lays the editor and the reference out side by side.
MutViewEditSplitForDaily(mm) == mm.screen = screenEdit /\ mm.editRef # << >>

\* View: viewEdit lays the editor and the reference pane out side by side
\* when the note is not daily and the reference is not empty.
ShowsReferencePane(mm) ==
    /\ mm.screen = screenEdit
    /\ mm.editCategory # CategoryDaily
    /\ mm.editRef # << >>

(***************************************************************************)
(* Bounds and the inputs of the model                                      *)
(***************************************************************************)

\* The most files the operations of the model put in the store.
MaxFiles == 2

\* The days of week 2025-W03, from its Monday on, that WriteNote may write.
Span == 1

\* The most weeks the clock advances in a run.
MaxTicks == 1

\* The most commands and messages in flight when the user presses a key.
MaxInFlight == 2

\* The number of years after 2000 whose first and last weeks are gathered.
MaxYears == 30

\* The number of characters the user types into the editor.
MaxText == 1

\* The project directories under the root, in alphabetical order.
ProjectDirs == << "alpha" >>

Projects == { ProjectDirs[i] : i \in 1..Len(ProjectDirs) }

\* The keys the user presses: quit, select, back, daily notes, weekly notes.
\* "esc" acts as "b" and "ctrl+c" as "q".
Keys == { "q", "enter", "b", "d", "w" }

\* Monday 2025-01-13, the first day of ISO week 2025-W03.
WeekStart == Date(2025, 1, 13)

\* Candidate dates of daily notes: days of week 2025-W03; a day whose ISO week
\* belongs to the next year; a day of a week that spans two months; and a day
\* of the year 999.
CandidateDates ==
    { AddDays(WeekStart, i) : i \in 0..(Span - 1) }
    \cup { Date(2024, 12, 30), Date(2025, 1, 30), Date(999, 12, 29) }

\* Names in days/ that are not dates.
MalformedNames ==
    { << "2", "0", "2", "5", "-", "0", "2", "-", "3", "0" >>,
      << "t", "o", "d", "o" >> }

\* The names WriteNote and DeleteNote are called with, by category.
NamesOf(category) ==
    IF category = CategoryDaily
    THEN { FormatDay(t) : t \in CandidateDates } \cup MalformedNames
    ELSE IF category = CategoryWeekly
    THEN { WeekName(ISOWeek(WeekStart)), WeekName(ISOWeek(Date(2025, 1, 30))) }
    ELSE IF category = CategoryMonthly THEN { FormatMonth(Date(2025, 1, 30)) }
    ELSE IF category = CategoryQuarterly THEN { quarterName(Date(2024, 12, 30)) }
    ELSE { FormatYear(Date(2024, 12, 30)) }

Categories == { AllCategories[i] : i \in 1..Len(AllCategories) }

\* The contents WriteNote is called with, by category: a summary may be saved
\* empty.
TextsOf(category) ==
    IF category = CategoryDaily THEN { << "x" >> } ELSE { << >>, << "x" >> }

\* The clock readings a run may start at.
StartDates == { Date(2025, 1, 16), Date(2025, 1, 25) }

\* A store holding a daily note for each of the seven days of week 2025-W03.
FullWeek ==
    [p \in { notePath("alpha", CategoryDaily, FormatDay(AddDays(WeekStart, i))) : i \in 0..6 }
        |-> << "x" >>]

\* A store holding daily notes for the first two days of week 2025-W03.
TwoDays ==
    [p \in { notePath("alpha", CategoryDaily, FormatDay(AddDays(WeekStart, i))) : i \in 0..1 }
        |-> << "x" >>]

\* What ret records of a call. For a reminder scan: its project, its result,
\* the error its listing returned, its local `now`, and whether the call before
\* it was a successful scan of the same project (no write came between them).
\* For a reference gather: its category and name, the zone and the read that
\* failed, the content it returned and the notes it read, in order. For
\* ReadNote and NoteExists: the category and name, the access that failed,
\* and the content or the boolean returned.
Returned(op, project, reminders, err) ==
    [op |-> op, project |-> project, reminders |-> reminders, err |-> err,
     listErr |-> nil, at |-> 0, again |-> FALSE,
     category |-> "", name |-> << >>, zone |-> [gaps |-> {}], failAt |-> 0,
     content |-> << >>, reads |-> << >>,
     parts |-> << >>, exists |-> FALSE]

(***************************************************************************)
(* The store's operations                                                  *)
(***************************************************************************)

Init ==
    /\ files \in { << >>, FullWeek }
    /\ now \in StartDates
    /\ ret = Returned("none", "", << >>, nil)
    /\ model = NewModel
    /\ cmds = Batch(<< loadProjects >>)
    /\ inbox = EmptyBag
    /\ running = TRUE
    /\ last = [type |-> "none", err |-> nil]
    /\ typed = << >>

\* WriteNote(project, category, name, content); diskOk = FALSE is a failure of
\* the file system.
WriteNote(project, category, name, content, diskOk) ==
    /\ Cardinality(DOMAIN files \cup {notePath(project, category, name)}) <= MaxFiles
    /\ IF diskOk
       THEN /\ files' = WriteFile(files, notePath(project, category, name), content)
            /\ ret' = Returned("WriteNote", project, << >>, nil)
       ELSE /\ files' = files
            /\ ret' = Returned("WriteNote", project, << >>, "could not write note")
    /\ UNCHANGED << now, tui >>

\* DeleteNote(project, category, name).
DeleteNote(project, category, name) ==
    /\ IF notePath(project, category, name) \in DOMAIN files
       THEN /\ files' = RemoveFile(files, notePath(project, category, name))
            /\ ret' = Returned("DeleteNote", project, << >>, nil)
       ELSE /\ files' = files
            /\ ret' = Returned("DeleteNote", project, << >>, "note does not exist")
    /\ UNCHANGED << now, tui >>

\* A call of CheckMissingSummaries(project): the listing succeeds or fails,
\* the clock is read, the maps are visited in some order.
Scan(project) ==
    \E dirOk \in BOOLEAN :
      \E iter \in IterOrders(files, project, now) :
        LET r == CheckMissingSummaries(files, project, now, dirOk, iter)
        IN  /\ ret' = [Returned("CheckMissingSummaries", project, r.reminders, r.err)
                         EXCEPT !.listErr = ListNotes(files, project, CategoryDaily, dirOk).err,
                                !.at = now,
                                !.again = /\ ret.op = "CheckMissingSummaries"
                                          /\ ret.project = project
                                          /\ ret.err = nil]
            /\ files' = MkdirAll(files, project, CategoryDaily, dirOk)
            /\ UNCHANGED << now, tui >>

\* The readings of the clock: a start date and up to MaxTicks weeks after it.
ClockDates == { AddDays(s, 7 * k) : s \in StartDates, k \in 0..MaxTicks }

\* A week passes.
Tick ==
    /\ AddDays(now, 7) \in ClockDates
    /\ now' = AddDays(now, 7)
    /\ UNCHANGED << files, ret, tui >>

Next ==
    \/ \E p \in Projects, c \in Categories, ok \in BOOLEAN :
         \E n \in NamesOf(c), t \in TextsOf(c) : WriteNote(p, c, n, t, ok)
    \/ \E p \in Projects, c \in Categories :
         \E n \in NamesOf(c) : DeleteNote(p, c, n)
    \/ \E p \in Projects : Scan(p)
    \/ Tick

Spec == Init /\ [][Next]_vars

(***************************************************************************)
(* Reads of the store between its writes                                   *)
(***************************************************************************)

\* A call of ReadNote(project, category, name); diskOk = FALSE is a failure
\* of os.ReadFile other than the file not existing.
Read(project, category, name, diskOk) ==
    LET r == ReadNote(files, project, category, name, diskOk)
    IN  /\ ret' = [Returned("ReadNote", project, << >>, r.err)
                     EXCEPT !.category = category, !.name = name,
                            !.failAt = IF diskOk THEN 0 ELSE 1,
                            !.content = r.content]
        /\ UNCHANGED << files, now, tui >>

\* A call of NoteExists(project, category, name): err == nil of os.Stat, which
\* fails for a file that does not exist and on a failing disk.
Exists(project, category, name, diskOk) ==
    /\ ret' = [Returned("NoteExists", project, << >>, nil)
                 EXCEPT !.category = category, !.name = name,
                        !.failAt = IF diskOk THEN 0 ELSE 1,
                        !.exists = diskOk /\ NoteExists(files, project, category, name)]
    /\ UNCHANGED << files, now, tui >>

NextStore ==
    \/ \E p \in Projects, c \in Categories, ok \in BOOLEAN :
         \E n \in NamesOf(c), t \in TextsOf(c) : WriteNote(p, c, n, t, ok)
    \/ \E p \in Projects, c \in Categories :
         \E n \in NamesOf(c) : DeleteNote(p, c, n)
    \/ \E p \in Projects, c \in Categories, ok \in BOOLEAN :
         \E n \in NamesOf(c) : Read(p, c, n, ok)
    \/ \E p \in Projects, c \in Categories, ok \in BOOLEAN :
         \E n \in NamesOf(c) : Exists(p, c, n, ok)

SpecStore == Init /\ [][NextStore]_vars

(***************************************************************************)
(* The program: keys, commands that run, messages that arrive              *)
(***************************************************************************)

\* What `last` records of a message: its type and its error.
Seen(msg) == [type |-> msg.type, err |-> msg.err]

KeyMsg(key) == [type |-> "KeyMsg", key |-> key, err |-> nil]

\* The commands started and not yet run, and the messages not yet delivered.
InFlight == BagCardinality(cmds) + BagCardinality(inbox)

\* What the user has typed into the editor after a key took the model from mm
\* to um: nothing when the editor was opened by the key or is not open, and
\* otherwise what was typed before and the characters the textarea added.
TypedAfter(mm, um, sofar) ==
    IF um.screen # screenEdit \/ mm.screen # screenEdit THEN << >>
    ELSE sofar \o SubSeq(um.editText, Len(mm.editText) + 1, Len(um.editText))

\* The user presses a key: Update is called with it. The user waits when the
\* commands it starts would put more than `limit` in flight, and types no more
\* than MaxText characters into the editor. tea.Quit ends the program, and
\* with it the commands and messages in flight.
Press(key, limit) ==
    LET u == Update(model, KeyMsg(key), now)
    IN  /\ running
        /\ InFlight + BagCardinality(u.cmds) <= limit
        /\ Len(u.m.editText) > Len(model.editText)
             => Len(model.editText) < MaxText /\ Len(typed) < MaxText
        /\ model' = u.m
        /\ running' = ~u.quit
        /\ IF u.quit
           THEN cmds' = EmptyBag /\ inbox' = EmptyBag
           ELSE cmds' = cmds (+) u.cmds /\ inbox' = inbox
        /\ last' = Seen(KeyMsg(key))
        /\ typed' = TypedAfter(model, u.m, typed)
        /\ UNCHANGED << files, now, ret >>

\* A key of the list screens. The editor's keys are those of the edit
\* specifications: here the user presses none while the editor is shown.
Key(key) == model.screen # screenEdit /\ Press(key, MaxInFlight)

\* The outcomes of a command's access to the disk: the renderer and the
\* cursor's blink have none.
Outcomes(c) == IF c.cmd \in { "renderMarkdownCmd", "BlinkCmd" } THEN { TRUE } ELSE BOOLEAN

\* The map iteration orders a command may meet: those of a reminder scan.
OrdersMet(c) ==
    IF c.cmd = "loadReminders" THEN IterOrders(files, c.project, now)
    ELSE { [weeks |-> << >>, months |-> << >>, quarters |-> << >>, years |-> << >>] }

\* A command runs, in its own goroutine: it reads or writes the store, whose
\* project directories are `dirs`, reads the clock, and sends its message.
\* time.Local is UTC.
Run(c, dirs) ==
    /\ running
    /\ BagIn(c, cmds)
    /\ \E ok \in Outcomes(c), iter \in OrdersMet(c) :
         /\ inbox' = inbox (+) SetToBag({ RunCommand(c, files, dirs, now, ok, iter,
                                                     [gaps |-> {}]) })
         /\ files' = FilesAfter(c, files, ok)
    /\ cmds' = cmds (-) SetToBag({ c })
    /\ UNCHANGED << now, ret, model, running, last, typed >>

RunCmd(c) == Run(c, ProjectDirs)

\* A message of a command arrives: Update is called with it.
Deliver(msg) ==
    LET u == Update(model, msg, now)
    IN  /\ running
        /\ BagIn(msg, inbox)
        /\ model' = u.m
        /\ cmds' = cmds (+) u.cmds
        /\ inbox' = inbox (-) SetToBag({ msg })
        /\ running' = ~u.quit
        /\ last' = Seen(msg)
        /\ UNCHANGED << files, now, ret, typed >>

NextTui ==
    \/ \E key \in Keys : Key(key)
    \/ \E c \in BagToSet(cmds) : RunCmd(c)
    \/ \E msg \in BagToSet(inbox) : Deliver(msg)

\* The program starts over a store with two daily notes of week 2025-W03.
InitTui ==
    /\ files = TwoDays
    /\ now = Date(2025, 1, 25)
    /\ ret = Returned("none", "", << >>, nil)
    /\ model = NewModel
    /\ cmds = Batch(<< loadProjects >>)
    /\ inbox = EmptyBag
    /\ running = TRUE
    /\ last = [type |-> "none", err |-> nil]
    /\ typed = << >>

SpecTui == InitTui /\ [][NextTui]_vars

(***************************************************************************)
(* Calls of GatherReferenceContent                                         *)
(***************************************************************************)

\* The zones time.Local may be: one whose every midnight exists (UTC), and
\* America/Sao_Paulo, where daylight saving time began at 00:00 on Sunday
\* 2018-11-04 and the clocks went from 23:59 to 01:00.
UTC == [gaps |-> {}]

SaoPaulo == [gaps |-> { Date(2018, 11, 4) }]

Zones == { UTC, SaoPaulo }

\* The notes a store may hold when a gather is called, by category: days of
\* weeks 2025-W03 and 2018-W44, and summaries of the periods around
\* them and of the year 999.
RefNamesOf(category) ==
    IF category = CategoryDaily
    THEN { FormatDay(t) : t \in { Date(2025, 1, 13), Date(2025, 1, 15),
                                  Date(2018, 11, 3), Date(2018, 11, 4) } }
    ELSE IF category = CategoryWeekly
    THEN { WeekName(ISOWeek(Date(2025, 1, 1))), WeekName(ISOWeek(Date(2025, 1, 13))) }
    ELSE IF category = CategoryMonthly
    THEN { FormatMonth(Date(2025, 1, 1)), FormatMonth(Date(999, 12, 1)) }
    ELSE IF category = CategoryQuarterly THEN { quarterName(Date(2025, 1, 1)) }
    ELSE { }

RefPaths ==
    UNION { { notePath("alpha", c, n) : n \in RefNamesOf(c) } : c \in Categories }

\* The content of a note that has content: a title naming the note, so that
\* no two notes have the same content.
TitleOf(path) == << "#", " " >> \o path[3]

\* The stores a gather is called on: up to MaxFiles notes, each empty or with
\* content.
RefStores ==
    UNION { [P -> BOOLEAN] : P \in { Q \in SUBSET RefPaths : Cardinality(Q) <= MaxFiles } }

StoreOf(written) ==
    [p \in DOMAIN written |-> IF written[p] THEN TitleOf(p) ELSE << >>]

\* The names GatherReferenceContent is called with, by category: names of the
\* periods above, and names that are not of the category's form.
GatherNamesOf(category) ==
    IF category = CategoryWeekly
    THEN { WeekName(ISOWeek(Date(2025, 1, 13))), WeekName(ISOWeek(Date(2018, 11, 4))),
           << "t", "o", "d", "o" >> }
    ELSE IF category = CategoryMonthly
    THEN { FormatMonth(Date(2025, 1, 1)), << "2", "0", "2", "5", "-", "1" >> }
    ELSE IF category = CategoryQuarterly
    THEN { quarterName(Date(2025, 1, 1)), quarterName(Date(999, 12, 1)),
           << "2", "0", "2", "5", "-", "Q", "5" >>, << "Q", "1" >> }
    ELSE IF category = CategoryYearly
    THEN { FormatYear(Date(2025, 1, 1)), << "t", "o", "d", "o" >> }
    ELSE { FormatDay(Date(2025, 1, 13)), << "t", "o", "d", "o" >> }

\* The zones a gather of the category meets: only the weekly gather reads
\* time.Local.
ZonesOf(category) == IF category = CategoryWeekly THEN Zones ELSE { UTC }

\* The reads that may fail: none (0), or one of those the gather makes.
FailAtsOf(project, category, name) ==
    0..Len(GatherReferenceContent(<< >>, project, category, name, UTC, 0).reads)

\* The program is about to call GatherReferenceContent on some store.
InitRef ==
    /\ files \in { StoreOf(w) : w \in RefStores }
    /\ now = Date(2025, 1, 25)
    /\ ret = Returned("none", "", << >>, nil)
    /\ model = NewModel
    /\ cmds = Batch(<< loadProjects >>)
    /\ inbox = EmptyBag
    /\ running = TRUE
    /\ last = [type |-> "none", err |-> nil]
    /\ typed = << >>

\* What ret records of a call of GatherReferenceContent that returned r.
ReturnedGather(project, category, name, zone, failAt, r) ==
    [Returned("GatherReferenceContent", project, << >>, r.err)
       EXCEPT !.category = category, !.name = name, !.zone = zone, !.failAt = failAt,
              !.content = r.content, !.reads = r.reads, !.parts = r.parts]

\* A call of GatherReferenceContent(project, category, name) in the zone
\* `zone`, whose failAt-th read of a note fails.
Gather(project, category, name, zone, failAt) ==
    /\ ret.op = "none"
    /\ ret' = ReturnedGather(project, category, name, zone, failAt,
                             GatherReferenceContent(files, project, category, name, zone, failAt))
    /\ UNCHANGED << files, now, tui >>

NextRef ==
    \E p \in Projects, c \in Categories :
      \E n \in GatherNamesOf(c), z \in ZonesOf(c) :
        \E k \in FailAtsOf(p, c, n) : Gather(p, c, n, z, k)

SpecRef == InitRef /\ [][NextRef]_vars

(***************************************************************************)
(* Calls of the engine: reminder scans and reference gathers               *)
(***************************************************************************)

\* The store is scanned for reminders, any number of times, and a reference
\* is gathered from it.
NextEngine ==
    \/ \E p \in Projects : Scan(p)
    \/ \E p \in Projects, c \in Categories :
         \E n \in GatherNamesOf(c), z \in ZonesOf(c) :
           \E k \in FailAtsOf(p, c, n) : Gather(p, c, n, z, k)

SpecEngine == InitRef /\ [][NextEngine]_vars

(***************************************************************************)
(* The editor: edit sessions, and calls of the gather for daily notes      *)
(***************************************************************************)

\* The keys the user presses: select (a project, a reminder, a menu item),
\* edit today's note, discard the edit. In the editor "enter" and "e" type.
EditKeys == { "enter", "e", "ctrl+c" }

\* The commands one call of enterEditMode starts for a note that has a
\* reference: the load of the note, the cursor's blink, the gather.
EditBatch ==
    BagCardinality(enterEditMode(NewModel, CategoryWeekly, << >>).cmds)

\* The program runs over the store TwoDays, the user pressing EditKeys while
\* no more than one such batch is in flight, and GatherReferenceContent is
\* called for daily names.
NextEdit ==
    \/ \E key \in EditKeys : Press(key, EditBatch)
    \/ \E c \in BagToSet(cmds) : RunCmd(c)
    \/ \E msg \in BagToSet(inbox) : Deliver(msg)
    \/ \E p \in Projects, c \in { CategoryDaily } :
         \E n \in GatherNamesOf(c), z \in ZonesOf(c) :
           \E k \in FailAtsOf(p, c, n) : Gather(p, c, n, z, k)

SpecEdit == InitTui /\ [][NextEdit]_vars

(***************************************************************************)
(* Edit sessions: the user opens the editor, types, saves or discards      *)
(***************************************************************************)

\* The user selects the project in the project list.
OpenProject == model.screen = screenProjectList /\ Press("enter", EditBatch)

\* The user presses enter in the project view once it has settled (nothing
\* is in flight): the reminder under the cursor is opened, or today's note
\* when there is no reminder.
OpenEditor ==
    /\ model.screen = screenProjectView
    /\ InFlight = 0
    /\ Press("enter", EditBatch)

\* In the editor the user types a line break, saves (esc) or discards
\* (ctrl+c), whatever is in flight.
InEditor(key) == model.screen = screenEdit /\ Press(key, EditBatch)

NextSession ==
    \/ OpenProject
    \/ OpenEditor
    \/ \E key \in { "enter", "esc", "ctrl+c" } : InEditor(key)
    \/ \E c \in BagToSet(cmds) : RunCmd(c)
    \/ \E msg \in BagToSet(inbox) : Deliver(msg)

SpecSession == InitTui /\ [][NextSession]_vars

(***************************************************************************)
(* The project view's list: reminders and menu items under the cursor      *)
(***************************************************************************)

\* A store holding one daily note, of 2024-12-30: on 2025-01-25 its week,
\* month, quarter and year are past and have no summary.
OldDay ==
    [p \in { notePath("alpha", CategoryDaily, FormatDay(Date(2024, 12, 30))) } |-> << "x" >>]

InitMenu ==
    /\ files = OldDay
    /\ now = Date(2025, 1, 25)
    /\ ret = Returned("none", "", << >>, nil)
    /\ model = NewModel
    /\ cmds = Batch(<< loadProjects >>)
    /\ inbox = EmptyBag
    /\ running = TRUE
    /\ last = [type |-> "none", err |-> nil]
    /\ typed = << >>

\* In the project view, once it has settled (nothing is in flight), the user
\* moves the cursor down or presses enter on what is under it.
InProjectView(key) ==
    /\ model.screen = screenProjectView
    /\ InFlight = 0
    /\ Press(key, EditBatch)

\* The user goes back from the note list.
LeaveNoteList == model.screen = screenNoteList /\ Press("b", EditBatch)

NextMenu ==
    \/ OpenProject
    \/ \E key \in { "down", "enter" } : InProjectView(key)
    \/ InEditor("ctrl+c")
    \/ LeaveNoteList
    \/ \E c \in BagToSet(cmds) : RunCmd(c)
    \/ \E msg \in BagToSet(inbox) : Deliver(msg)

SpecMenu == InitMenu /\ [][NextMenu]_vars

(***************************************************************************)
(* Two projects: the user goes from one to the other                       *)
(***************************************************************************)

\* The project directories: alpha, which holds the notes of TwoDays, and
\* beta, which holds none.
TwoProjects == << "alpha", "beta" >>

\* The user chooses a project in the project list ("down", "enter"), goes
\* back to the list from a project's view ("b"), or opens the reminder under
\* the cursor of the project's view ("enter").
ChooseProject(key) == model.screen = screenProjectList /\ Press(key, EditBatch)

BackToProjects == model.screen = screenProjectView /\ Press("b", EditBatch)

OpenReminder ==
    /\ model.screen = screenProjectView
    /\ model.menuCursor < Len(model.reminders)
    /\ Press("enter", EditBatch)

NextProjects ==
    \/ \E key \in { "down", "enter" } : ChooseProject(key)
    \/ BackToProjects
    \/ OpenReminder
    \/ \E c \in BagToSet(cmds) : Run(c, TwoProjects)
    \/ \E msg \in BagToSet(inbox) : Deliver(msg)

SpecProjects == InitTui /\ [][NextProjects]_vars

(***************************************************************************)
(* The note lists: the user browses the notes of a category                *)
(***************************************************************************)

\* A store holding daily notes for the first two days of week 2025-W03, each
\* with a text of its own.
TwoTexts ==
    [p \in { notePath("alpha", CategoryDaily, FormatDay(AddDays(WeekStart, i))) : i \in 0..1 }
        |-> IF p[3] = FormatDay(WeekStart) THEN << "x" >> ELSE << "y" >>]

InitBrowse ==
    /\ files = TwoTexts
    /\ now = Date(2025, 1, 25)
    /\ ret = Returned("none", "", << >>, nil)
    /\ model = NewModel
    /\ cmds = Batch(<< loadProjects >>)
    /\ inbox = EmptyBag
    /\ running = TRUE
    /\ last = [type |-> "none", err |-> nil]
    /\ typed = << >>

\* What may be in flight when the user presses enter in a note list: the
\* listing enterNoteList started, and what enterEditMode starts.
BrowseBatch ==
    BagCardinality(enterNoteList(NewModel, CategoryWeekly).cmds) + EditBatch

\* In a note list the user moves the cursor, opens the note under it or goes
\* back, whatever is in flight.
InNoteList(key) == model.screen = screenNoteList /\ Press(key, BrowseBatch)

NextBrowse ==
    \/ OpenProject
    \/ \E key \in { "d", "w" } : InProjectView(key)
    \/ \E key \in { "down", "up", "enter", "b" } : InNoteList(key)
    \/ \E c \in BagToSet(cmds) : RunCmd(c)
    \/ \E msg \in BagToSet(inbox) : Deliver(msg)

SpecBrowse == InitBrowse /\ [][NextBrowse]_vars

(***************************************************************************)
(* Summaries: the user writes the summaries the reminders ask for          *)
(***************************************************************************)

\* The reminder scans started whose result Update has not received.
ScansInFlight ==
    BagCardinality([c \in { d \in BagToSet(cmds) : d.cmd = "loadReminders" } |-> cmds[c]])
      + BagCardinality([msg \in { n \in BagToSet(inbox) : n.type = "remindersLoadedMsg" }
                          |-> inbox[msg]])

\* What may be in flight when the user opens a reminder: the scan a save
\* started, and what enterEditMode starts.
SummaryBatch ==
    BagCardinality(Batch(<< loadReminders(NewModel) >>)) + EditBatch

\* In the project view the user moves the cursor down or opens the reminder
\* under it, while nothing but reminder scans is in flight.
OnReminders(key) ==
    /\ model.screen = screenProjectView
    /\ InFlight = ScansInFlight
    /\ key = "enter" => model.menuCursor < Len(model.reminders)
    /\ Press(key, SummaryBatch)

\* The user saves the note once the editor has loaded it.
SaveSummary ==
    /\ model.screen = screenEdit
    /\ InFlight = ScansInFlight
    /\ Press("esc", SummaryBatch)

NextSummaries ==
    \/ OpenProject
    \/ \E key \in { "down", "enter" } : OnReminders(key)
    \/ SaveSummary
    \/ \E c \in BagToSet(cmds) : RunCmd(c)
    \/ \E msg \in BagToSet(inbox) : Deliver(msg)

SpecSummaries == InitMenu /\ [][NextSummaries]_vars

(***************************************************************************)
(* The project view's cursor: the list under it shrinks and grows          *)
(***************************************************************************)

\* In the project view the user moves the cursor, whatever is in flight.
MoveCursor(key) == model.screen = screenProjectView /\ Press(key, EditBatch)

NextCursor ==
    \/ OpenProject
    \/ \E key \in { "down", "up" } : MoveCursor(key)
    \/ InProjectView("enter")
    \/ BackToProjects
    \/ \E c \in BagToSet(cmds) : RunCmd(c)
    \/ \E msg \in BagToSet(inbox) : Deliver(msg)

SpecCursor == InitMenu /\ [][NextCursor]_vars

(***************************************************************************)
(* Calls of the gather on the reminders a scan returned                    *)
(***************************************************************************)

\* The dates of the daily notes: days of a week that spans two months and
\* two years, of a week that belongs to the ISO year before, of December 999,
\* and the Saturday and Sunday of the week in which daylight saving time
\* began in America/Sao_Paulo.
RemindedDates ==
    { Date(2024, 12, 30), Date(2025, 1, 2), Date(2021, 1, 3), Date(999, 12, 10),
      Date(2018, 11, 3), Date(2018, 11, 4) }

\* The stores scanned: up to MaxFiles daily notes, each with content.
RemindedStores ==
    { [p \in { notePath("alpha", CategoryDaily, FormatDay(d)) : d \in D } |-> << "x" >>] :
        D \in { E \in SUBSET RemindedDates : Cardinality(E) \in 1..MaxFiles } }

\* The program is about to scan a store that holds daily notes only.
InitReminded ==
    /\ files \in RemindedStores
    /\ now = Date(2025, 1, 25)
    /\ ret = Returned("none", "", << >>, nil)
    /\ model = NewModel
    /\ cmds = Batch(<< loadProjects >>)
    /\ inbox = EmptyBag
    /\ running = TRUE
    /\ last = [type |-> "none", err |-> nil]
    /\ typed = << >>

\* The scan of the store, once.
ScanOnce(project) == ret.op = "none" /\ Scan(project)

\* The reference of the i-th reminder the scan returned is gathered, in the
\* zone `zone`.
GatherReminded(i, zone) ==
    /\ ret.op = "CheckMissingSummaries"
    /\ ret.err = nil
    /\ i \in 1..Len(ret.reminders)
    /\ ret' = ReturnedGather(ret.project, ret.reminders[i].Category, ret.reminders[i].Name,
                             zone, 0,
                             GatherReferenceContent(files, ret.project,
                                                    ret.reminders[i].Category,
                                                    ret.reminders[i].Name, zone, 0))
    /\ UNCHANGED << files, now, tui >>

NextReminded ==
    \/ \E p \in Projects : ScanOnce(p)
    \/ \E i \in 1..(4 * MaxFiles), z \in Zones : GatherReminded(i, z)

SpecReminded == InitReminded /\ [][NextReminded]_vars

(***************************************************************************)
(* Calls of the weekly gather on week names (mondayOfISOWeek)              *)
(***************************************************************************)

WeekYears == 2000..(2000 + MaxYears)

\* The dates whose weeks are gathered: the days around every new year, where
\* the ISO year of a date may differ from its calendar year, the same days of
\* the year 1000, and the week in which daylight saving time began in
\* America/Sao_Paulo.
WeekDates ==
    UNION { Date(y - 1, 12, 29)..Date(y, 1, 4) : y \in WeekYears \cup { 1000 } }
      \cup (Date(2018, 10, 29)..Date(2018, 11, 4))

\* The week names WeekName (fmt.Sprintf("%d-W%02d") in the reminder scan)
\* gives the dates, and the first week of every year.
WeekNamesOfDates ==
    { WeekName(ISOWeek(d)) : d \in WeekDates }
      \cup { WeekName([year |-> y, week |-> 1]) : y \in WeekYears }

\* Names that are not week names.
MalformedWeekNames ==
    { << "2", "0", "2", "5", "-", "W", "3" >>,
      << "2", "0", "2", "5", "-", "W", "0", "3", ".", "m", "d" >>,
      << " ", "2", "0", "2", "5", "-", "W", "0", "3" >>,
      << "2", "0", "2", "5", "-", "W" >>,
      << "2", "0", "2", "5", "-", "0", "3" >>,
      << "2", "0", "2", "5", "W", "0", "3" >>,
      << "W", "0", "3" >>,
      << "t", "o", "d", "o" >>,
      << >> }

\* The program is about to gather a week, on an empty store.
InitWeek ==
    /\ files = << >>
    /\ now = Date(2025, 1, 25)
    /\ ret = Returned("none", "", << >>, nil)
    /\ model = NewModel
    /\ cmds = Batch(<< loadProjects >>)
    /\ inbox = EmptyBag
    /\ running = TRUE
    /\ last = [type |-> "none", err |-> nil]
    /\ typed = << >>

NextWeek ==
    \E p \in Projects, n \in WeekNamesOfDates \cup MalformedWeekNames, z \in Zones :
      Gather(p, CategoryWeekly, n, z, 0)

SpecWeek == InitWeek /\ [][NextWeek]_vars

(***************************************************************************)
(* Calls of the monthly gather on month names                              *)
(***************************************************************************)

\* The first days of the months gathered: every month of WeekYears, and the
\* months around the new year 1000.
MonthStarts ==
    { Date(y, m, 1) : y \in WeekYears, m \in 1..12 }
      \cup { Date(999, 12, 1), Date(1000, 1, 1) }

\* Names that are not month names.
MalformedMonthNames ==
    { << "2", "0", "2", "5", "-", "1" >>,
      << "2", "0", "2", "5", "-", "1", "3" >>,
      << "2", "0", "2", "5", "-", "0", "0" >>,
      << "2", "0", "2", "5", "-", "W", "0", "3" >>,
      << "t", "o", "d", "o" >>,
      << >> }

\* A month is gathered, on an empty store.
NextMonth ==
    \E p \in Projects, n \in { FormatMonth(d) : d \in MonthStarts } \cup MalformedMonthNames :
      Gather(p, CategoryMonthly, n, UTC, 0)

SpecMonth == InitWeek /\ [][NextMonth]_vars

(***************************************************************************)
(* Calls of the quarterly gather on the quarter names of dates             *)
(***************************************************************************)

\* The dates whose quarters are gathered: the first day of every month of
\* WeekYears and of the year 999.
QuarterDates == { Date(y, m, 1) : y \in WeekYears \cup { 999 }, m \in 1..12 }

\* The quarter quarterName gives a date is gathered, on an empty store.
NextQuarter ==
    \E p \in Projects, d \in QuarterDates : Gather(p, CategoryQuarterly, quarterName(d), UTC, 0)

SpecQuarter == InitWeek /\ [][NextQuarter]_vars

(***************************************************************************)
(* Periods, as the specification describes them: ranges of calendar days   *)
(***************************************************************************)

SummaryCategories ==
    { CategoryWeekly, CategoryMonthly, CategoryQuarterly, CategoryYearly }

\* The months of the quarter a month belongs to.
QuarterMonths(m) ==
    CHOOSE b \in { {1, 2, 3}, {4, 5, 6}, {7, 8, 9}, {10, 11, 12} } : m \in b

Least(S) == CHOOSE x \in S : \A y \in S : x <= y

Greatest(S) == CHOOSE x \in S : \A y \in S : y <= x

\* Every date a daily note of the model can be named after, and every reading
\* of the clock.
KnownDates == CandidateDates \cup { AddDays(WeekStart, i) : i \in 0..6 }

\* The period of category c that holds day d: its first day, its last day and
\* its name.
PeriodOf(c, d) ==
    IF c = CategoryWeekly
    THEN [first |-> d - ((Weekday(d) + 6) % 7),
          last  |-> d - ((Weekday(d) + 6) % 7) + 6,
          name  |-> WeekName(ISOWeek(d))]
    ELSE IF c = CategoryMonthly
    THEN [first |-> Date(Year(d), Month(d), 1),
          last  |-> Date(Year(d), Month(d), daysIn(Month(d), Year(d))),
          name  |-> FormatMonth(d)]
    ELSE IF c = CategoryQuarterly
    THEN [first |-> Date(Year(d), Least(QuarterMonths(Month(d))), 1),
          last  |-> Date(Year(d), Greatest(QuarterMonths(Month(d))),
                         daysIn(Greatest(QuarterMonths(Month(d))), Year(d))),
          name  |-> quarterName(d)]
    ELSE [first |-> Date(Year(d), 1, 1),
          last  |-> Date(Year(d), 12, 31),
          name  |-> FormatYear(d)]

\* PeriodOf and the YYYY-MM-DD names, tabulated for the dates of the model.
Periods ==
    [x \in SummaryCategories \X (KnownDates \cup ClockDates) |-> PeriodOf(x[1], x[2])]

DayNames == [t \in KnownDates |-> FormatDay(t)]

FirstDay(c, d) == Periods[<< c, d >>].first

LastDay(c, d) == Periods[<< c, d >>].last

PeriodName(c, d) == Periods[<< c, d >>].name

\* The dates a name is the YYYY-MM-DD form of.
DatesNamed(n) == { t \in KnownDates : DayNames[t] = n }

\* The last call was a reminder scan that returned no error; the store is as
\* that scan saw it, since every later call of the store replaces ret.
Scanned == ret.op = "CheckMissingSummaries" /\ ret.err = nil

\* The dates of the well-formed daily notes of the scanned project.
EntryDates ==
    UNION { DatesNamed(n) : n \in DirNames(files, ret.project, CategoryDaily) }

\* The (category, period name) pairs the scan returned reminders for.
Reminded == { << ret.reminders[i].Category, ret.reminders[i].Name >> :
                i \in 1..Len(ret.reminders) }

HasSummary(c, d) == notePath(ret.project, c, PeriodName(c, d)) \in DOMAIN files

Within(c, d, t) == FirstDay(c, d) <= t /\ t <= LastDay(c, d)

\* The reminders at positions i of the result.
ReminderAt(i) == ret.reminders[i]

\* The (category, period name) pairs of the past periods that hold a daily
\* entry and have no summary note.
MissingPast ==
    { << x[1], PeriodName(x[1], x[2]) >> :
        x \in { y \in SummaryCategories \X EntryDates :
                  LastDay(y[1], y[2]) < ret.at /\ ~HasSummary(y[1], y[2]) } }

(***************************************************************************)
(* Claims                                                                  *)
(***************************************************************************)

\* C1: a successful scan returns a reminder for period P of category C if and
\* only if a daily note's date falls within P, P lies strictly before the
\* scan's now (its last day is before now), and no note (C, P) exists.
C1_ReminderIffPastAndMissing == Scanned => Reminded = MissingPast

\* C2 (as claimed): no reminder is returned for the period that holds now, and
\* when every daily entry lies inside the current week the scan returns no
\* reminder at all.
C2_NoneWhenAllInCurrentWeek ==
    Scanned =>
      /\ \A c \in SummaryCategories :
           /\ << c, PeriodName(c, ret.at) >> \notin Reminded
           /\ \A d \in EntryDates :
                Within(c, d, ret.at) => << c, PeriodName(c, d) >> \notin Reminded
      /\ (\A d \in EntryDates : Within(CategoryWeekly, d, ret.at))
           => ret.reminders = << >>

\* C2 (amended): no reminder is returned for the period that holds now, and
\* when every daily entry lies inside the current week and inside the current
\* month the scan returns no reminder at all.
C2_NoneForCurrentPeriod ==
    Scanned =>
      /\ \A c \in SummaryCategories :
           /\ << c, PeriodName(c, ret.at) >> \notin Reminded
           /\ \A d \in EntryDates :
                Within(c, d, ret.at) => << c, PeriodName(c, d) >> \notin Reminded
      /\ (\A d \in EntryDates : /\ Within(CategoryWeekly, d, ret.at)
                                /\ Within(CategoryMonthly, d, ret.at))
           => ret.reminders = << >>

\* C2 witness: daily notes 2025-01-13 .. 2025-01-19, no summary, scanned on
\* 2025-01-16, inside that week: no reminder.
C2_Witness ==
    /\ Scanned
    /\ files = FullWeek
    /\ ret.at = Date(2025, 1, 16)
    /\ ret.reminders = << >>

\* C3: a successful scan returns a reminder for every period that ended before
\* now, holds a daily entry and has no summary note, however far back it lies.
C3_EveryMissingPastPeriod == Scanned => MissingPast \subseteq Reminded

\* C3 witness: two weeks are reminded, one of them older than last week.
C3_Witness ==
    /\ Scanned
    /\ \E d, e \in EntryDates :
         /\ LastDay(CategoryWeekly, d) < FirstDay(CategoryWeekly, ret.at) - 7
         /\ LastDay(CategoryWeekly, e) < ret.at
         /\ PeriodName(CategoryWeekly, d) # PeriodName(CategoryWeekly, e)
         /\ << CategoryWeekly, PeriodName(CategoryWeekly, d) >> \in Reminded
         /\ << CategoryWeekly, PeriodName(CategoryWeekly, e) >> \in Reminded

W03 == << "2", "0", "2", "5", "-", "W", "0", "3" >>

\* C4: the current period is left out per granularity: when every daily entry
\* lies in a week that has ended but in the current month, the reminders are
\* exactly the Weekly ones of the entries' weeks that have no weekly note; with
\* daily notes 2025-01-13 .. 2025-01-19, no weekly note and now = 2025-01-25 the
\* result is exactly the reminder Weekly 2025-W03.
C4_PerGranularity ==
    Scanned =>
      /\ (\A d \in EntryDates : /\ LastDay(CategoryWeekly, d) < ret.at
                                /\ Within(CategoryMonthly, d, ret.at))
           => Reminded = { << CategoryWeekly, PeriodName(CategoryWeekly, d) >> :
                             d \in { e \in EntryDates : ~HasSummary(CategoryWeekly, e) } }
      /\ (files = FullWeek /\ ret.at = Date(2025, 1, 25))
           => ret.reminders =
                << [Category |-> CategoryWeekly, Name |-> W03,
                    Label |-> << "W", "e", "e", "k", "l", "y", " ", "s", "u", "m", "m",
                                 "a", "r", "y", " ", "f", "o", "r", " " >> \o W03] >>

\* C4 witness: the scenario's scan.
C4_Witness ==
    /\ Scanned
    /\ files = FullWeek
    /\ ret.at = Date(2025, 1, 25)
    /\ Len(ret.reminders) = 1

\* C5: the reminders are ordered by category, Weekly < Monthly < Quarterly <
\* Yearly, within a category by name in descending bytewise order, and within
\* a category a reminder listed earlier is for a more recent period.
C5_SortedMostRecentFirst ==
    Scanned =>
      \A i, j \in 1..Len(ret.reminders) :
        i < j =>
          /\ categoryOrder(ReminderAt(i).Category) <= categoryOrder(ReminderAt(j).Category)
          /\ ReminderAt(i).Category = ReminderAt(j).Category =>
               /\ StrLess(ReminderAt(j).Name, ReminderAt(i).Name)
               /\ \A d, e \in EntryDates :
                    /\ PeriodName(ReminderAt(i).Category, d) = ReminderAt(i).Name
                    /\ PeriodName(ReminderAt(j).Category, e) = ReminderAt(j).Name
                    => FirstDay(ReminderAt(i).Category, d) > FirstDay(ReminderAt(j).Category, e)

\* The word a label starts with.
LabelWord(c) ==
    IF c = CategoryWeekly THEN << "W", "e", "e", "k", "l", "y" >>
    ELSE IF c = CategoryMonthly THEN << "M", "o", "n", "t", "h", "l", "y" >>
    ELSE IF c = CategoryQuarterly THEN << "Q", "u", "a", "r", "t", "e", "r", "l", "y" >>
    ELSE << "Y", "e", "a", "r", "l", "y" >>

\* C6: every reminder has a category among Weekly, Monthly, Quarterly, Yearly
\* and the label "<word of its category> summary for <its Name>".
C6_CategoryAndLabel ==
    Scanned =>
      \A i \in 1..Len(ret.reminders) :
        /\ ReminderAt(i).Category \in SummaryCategories
        /\ ReminderAt(i).Label =
             LabelWord(ReminderAt(i).Category)
             \o << " ", "s", "u", "m", "m", "a", "r", "y", " ", "f", "o", "r", " " >>
             \o ReminderAt(i).Name

\* C6 witness: one scan returns reminders of all four categories.
C6_Witness ==
    /\ Scanned
    /\ \A c \in SummaryCategories : \E r \in Reminded : r[1] = c

\* The same week and month (hence quarter and year) hold both days.
SameCurrentPeriods(t, u) ==
    \A c \in SummaryCategories : FirstDay(c, t) = FirstDay(c, u)

\* C7 (as claimed): a successful scan that follows a successful scan of the
\* same project, no write in between, returns the same reminders in the same
\* order.
C7_SameOutputTwice ==
    [][(Scanned /\ Scanned' /\ ret'.again /\ ret'.project = ret.project /\ files' = files)
         => ret'.reminders = ret.reminders]_vars

\* C7 (amended): ... returns the same reminders in the same order when both
\* scans read a clock inside the same week, month, quarter and year.
C7_SameOutputInSamePeriods ==
    [][(Scanned /\ Scanned' /\ ret'.again /\ ret'.project = ret.project /\ files' = files
          /\ SameCurrentPeriods(ret.at, ret'.at))
         => ret'.reminders = ret.reminders]_vars

\* C7 witness: a second scan in a row, on a project with several reminders of
\* one category.
C7_Witness ==
    /\ Scanned
    /\ ret.again
    /\ \E i, j \in 1..Len(ret.reminders) :
         i # j /\ ReminderAt(i).Category = ReminderAt(j).Category

\* C8: when the listing succeeds the scan returns no error whatever the names
\* in days/; every reminder is for the period of a daily note whose name is a
\* date; and when no name is a date there is no reminder.
C8_MalformedNamesSkipped ==
    (ret.op = "CheckMissingSummaries" /\ ret.listErr = nil) =>
      /\ ret.err = nil
      /\ \A r \in Reminded : \E d \in EntryDates : r[2] = PeriodName(r[1], d)
      /\ EntryDates = {} => ret.reminders = << >>

\* C8 witness: a scan of a directory that holds a name that is no date beside
\* a daily note, and returns reminders.
C8_Witness ==
    /\ Scanned
    /\ \E n \in DirNames(files, ret.project, CategoryDaily) : DatesNamed(n) = {}
    /\ ret.reminders # << >>

\* C9: when listing the daily notes fails, the scan returns the listing's error
\* and no reminders.
C9_ListingErrorReturned ==
    (ret.op = "CheckMissingSummaries" /\ ret.listErr # nil) =>
      /\ ret.err = ret.listErr
      /\ ret.reminders = << >>

\* C9 witness: the listing failed for a project whose daily notes lie in past
\* periods without summaries.
C9_Witness ==
    /\ ret.op = "CheckMissingSummaries"
    /\ ret.listErr # nil
    /\ \E d \in UNION { DatesNamed(n) : n \in DirNames(files, ret.project, CategoryDaily) } :
         LastDay(CategoryWeekly, d) < ret.at /\ ~HasSummary(CategoryWeekly, d)

\* A message of a failed directory listing.
ListingFailed(type) == last.type = type /\ last.err # nil

\* C10 (as stated): after the message of a failed listing reached Update, be it
\* the listing of a reminder scan or of the note list, the program is running
\* and the status line shows an error message naming the failure.
C10_ListingFailureShown ==
    (ListingFailed("remindersLoadedMsg") \/ ListingFailed("notesListedMsg"))
      => /\ running
         /\ model.statusErr
         /\ Len(model.statusMsg) = 2 /\ model.statusMsg[2] = last.err

\* C10 (amended): when the message of a failed note-list listing reaches
\* Update, the status line becomes the error "Error listing notes: <failure>"
\* and the program keeps running; when the message of a reminder scan whose
\* listing failed reaches Update, the failure is dropped: no reminder is held,
\* the status line stays as it was, and the program keeps running.
C10_ListingFailureHandled ==
    [][ \A msg \in BagToSet(inbox) :
          (Deliver(msg) /\ msg.err # nil)
            => /\ running'
               /\ msg.type = "notesListedMsg"
                    => /\ model'.statusErr
                       /\ model'.statusMsg = << "Error listing notes: ", msg.err >>
               /\ msg.type = "remindersLoadedMsg"
                    => /\ model'.reminders = << >>
                       /\ model'.statusMsg = model.statusMsg
                       /\ model'.statusErr = model.statusErr ]_vars

\* C10 witness: the note list shows the error of its failed listing, and the
\* message of a failed reminder scan, the last to reach Update, left it there.
C10_Witness ==
    /\ running
    /\ ListingFailed("remindersLoadedMsg")
    /\ model.screen = screenNoteList
    /\ model.statusErr
    /\ model.statusMsg = << "Error listing notes: ", "could not read directory" >>
    /\ model.reminders = << >>

(***************************************************************************)
(* Reference content, as the specification describes it                    *)
(***************************************************************************)

\* A call of GatherReferenceContent for the category has returned, without
\* an error or with one.
Gathered_ok(category) ==
    ret.op = "GatherReferenceContent" /\ ret.category = category /\ ret.err = nil

Gathered_err(category) ==
    ret.op = "GatherReferenceContent" /\ ret.category = category /\ ret.err # nil

\* The days the gathered weeks lie in.
GatherDates ==
    (Date(2025, 1, 6)..Date(2025, 1, 19)) \cup (Date(2018, 10, 22)..Date(2018, 11, 11))

\* The seven dates of the ISO week called `name`, Monday to Sunday.
DatesOfWeek(name) ==
    LET monday == CHOOSE d \in GatherDates : Weekday(d) = 1 /\ WeekName(ISOWeek(d)) = name
    IN  [i \in 1..7 |-> monday + i - 1]

\* The content of the note of a category and name: empty if there is none.
ContentOf(project, category, name) ==
    IF notePath(project, category, name) \in DOMAIN files
    THEN files[notePath(project, category, name)] ELSE << >>

\* The blocks of the dates of a week whose daily note is non-empty, in date
\* order.
DailyBlocks(project, name) ==
    LET HasContent(d) == ContentOf(project, CategoryDaily, FormatDay(d)) # << >>
        dates == SelectSeq(DatesOfWeek(name), HasContent)
    IN  [i \in 1..Len(dates) |->
           WordBlock(FormatDay(dates[i]), WeekdayString(Weekday(dates[i])),
                     ContentOf(project, CategoryDaily, FormatDay(dates[i])))]

\* C11: a weekly gather returns one block for each of the week's seven dates
\* whose daily note is non-empty, Monday to Sunday, each a header naming the
\* date and the weekday and then the note's content, joined by a blank line;
\* if no date has content it returns "(no daily entries for this week)".
C11_WeeklyBlocks ==
    Gathered_ok(CategoryWeekly) =>
        ret.content = IF DailyBlocks(ret.project, ret.name) = << >> THEN NoDailyEntries
                      ELSE Join(DailyBlocks(ret.project, ret.name))

\* The first days of the months gathered.
GatherMonths == { Date(2025, 1, 1), Date(2025, 2, 1) }

\* The names of the ISO weeks that hold a day of the month called `name`, in
\* chronological order.
OverlappingWeeks(name) ==
    LET first  == CHOOSE d \in GatherMonths : FormatMonth(d) = name
        inside == { d \in first..(first + 30) : FormatMonth(d) = name }
        weeks  == { ISOWeek(d) : d \in inside }
        Before(v, w) == v.year < w.year \/ (v.year = w.year /\ v.week < w.week)
    IN  [i \in 1..Cardinality(weeks) |->
           WeekName(CHOOSE w \in weeks : Cardinality({ v \in weeks : Before(v, w) }) = i - 1)]

\* C12: a monthly gather returns exactly one block for every ISO week that
\* overlaps the month, in chronological order, whether or not the week has a
\* note: the block carries the weekly note's content if it is non-empty and
\* "(no summary)" otherwise.
C12_EveryOverlappingWeek ==
    Gathered_ok(CategoryMonthly) =>
        LET weeks == OverlappingWeeks(ret.name)
        IN  ret.content =
              Join([i \in 1..Len(weeks) |->
                      Block(weeks[i],
                            IF ContentOf(ret.project, CategoryWeekly, weeks[i]) # << >>
                            THEN ContentOf(ret.project, CategoryWeekly, weeks[i])
                            ELSE NoSummary)])

\* The month 2025-01 was gathered when week 2025-W03 had a note with content
\* and week 2025-W01 had none.
C12_Witness ==
    /\ Gathered_ok(CategoryMonthly)
    /\ ret.name = FormatMonth(Date(2025, 1, 1))
    /\ Len(OverlappingWeeks(ret.name)) = 5
    /\ ContentOf(ret.project, CategoryWeekly, WeekName(ISOWeek(Date(2025, 1, 13)))) # << >>
    /\ notePath(ret.project, CategoryWeekly, WeekName(ISOWeek(Date(2025, 1, 1)))) \notin DOMAIN files

\* The first days of the quarters and of the years gathered.
GatherQuarters == { Date(2025, 1, 1), Date(999, 10, 1) }

GatherYears == { Date(2025, 1, 1) }

\* A block's body: the content of a child note, or "(no summary)".
ContentOrPlaceholder(project, category, name) ==
    IF ContentOf(project, category, name) # << >> THEN ContentOf(project, category, name)
    ELSE NoSummary

\* The string s ends with the string tail.
EndsWith(s, tail) ==
    Len(s) >= Len(tail) /\ SubSeq(s, Len(s) - Len(tail) + 1, Len(s)) = tail

\* The end of the block of the i-th month of the quarter that begins on day
\* `first`: the month's word, and the content of the month's note or the
\* placeholder.
MonthBlockEnd(project, first, i) ==
    LET month == Date(Year(first), Month(first) + i - 1, 1)
    IN  << " ", "(" >> \o MonthString(Month(month)) \o << ")", " ", Rule, Rule, "\n" >>
          \o ContentOrPlaceholder(project, CategoryMonthly, FormatMonth(month))

\* The end of the block of quarter q of the year that begins on day `first`.
QuarterBlockEnd(project, first, q) ==
    << "-", "Q" >> \o Itoa(q) \o << " ", Rule, Rule, "\n" >>
      \o ContentOrPlaceholder(project, CategoryQuarterly,
                              quarterName(Date(Year(first), 3 * q - 2, 1)))

\* C13: a quarterly gather returns exactly three blocks, one per month of the
\* quarter in calendar order, and a yearly gather exactly four, Q1 to Q4; each
\* block shows the child note's content, or "(no summary)" if it is empty, and
\* there is no other message when all children are empty.
C13_ThreeMonthsFourQuarters ==
    /\ \A first \in GatherQuarters :
         Gathered_ok(CategoryQuarterly) /\ ret.name = quarterName(first)
            => /\ Len(ret.parts) = 3
               /\ ret.content = Join(ret.parts)
               /\ \A i \in 1..3 : EndsWith(ret.parts[i], MonthBlockEnd(ret.project, first, i))
    /\ \A first \in GatherYears :
         Gathered_ok(CategoryYearly) /\ ret.name = FormatYear(first)
            => /\ Len(ret.parts) = 4
               /\ ret.content = Join(ret.parts)
               /\ \A q \in 1..4 : EndsWith(ret.parts[q], QuarterBlockEnd(ret.project, first, q))

\* C15: if a read of a child note fails during a gather, the gather stops at
\* that read and returns its error with no content, whichever child it is; it
\* returns that error in no other case.
C15_FirstFailureAborts ==
    ret.op = "GatherReferenceContent" =>
        /\ ret.failAt > 0 => /\ ret.err = "could not read note"
                             /\ ret.content = << >>
                             /\ ret.parts = << >>
                             /\ Len(ret.reads) = ret.failAt
        /\ ret.failAt = 0 => ret.err # "could not read note"

\* The read of Wednesday's note failed in a gather of week 2025-W03, after
\* Monday's note, which has content, was read.
C15_Witness ==
    /\ Gathered_err(CategoryWeekly)
    /\ ret.name = WeekName(ISOWeek(Date(2025, 1, 13)))
    /\ ret.failAt = 3
    /\ ret.reads[3] = notePath(ret.project, CategoryDaily, FormatDay(Date(2025, 1, 15)))
    /\ ContentOf(ret.project, CategoryDaily, FormatDay(Date(2025, 1, 13))) # << >>
    /\ ret.content = << >>

\* A name of the form YYYY-Www: a year in digits, "-W", and two digits. The
\* year is taken as the program writes it, with as many digits as it has.
IsWeekForm(name) ==
    \E k \in 1..Len(name) :
        /\ Len(name) = k + 4
        /\ \A i \in 1..k : isDigit(name[i])
        /\ name[k + 1] = "-" /\ name[k + 2] = "W"
        /\ isDigit(name[k + 3]) /\ isDigit(name[k + 4])

\* C16: the weekly gather of a name that is not of the form YYYY-Www fails
\* with a parse error and reads no note.
C16_MalformedWeekFails ==
    (ret.op = "GatherReferenceContent" /\ ret.category = CategoryWeekly /\ ~IsWeekForm(ret.name))
        => ret.err = "could not parse week" /\ ret.reads = << >>

\* A name of the form YYYY-Qq with q in 1..4: a year in digits (as many as
\* the program writes), "-Q", and one of the digits 1 to 4.
IsQuarterForm(name) ==
    \E k \in 1..Len(name) :
        /\ Len(name) = k + 3
        /\ \A i \in 1..k : isDigit(name[i])
        /\ name[k + 1] = "-" /\ name[k + 2] = "Q"
        /\ name[k + 3] \in { "1", "2", "3", "4" }

\* The two characters that end the name of a note read, as a number: the
\* month of a monthly note.
MonthRead(path) == Atoi(SubSeq(path[3], Len(path[3]) - 1, Len(path[3])))

\* C17: the quarterly gather of a name that is not YYYY-Qq with q in 1..4
\* fails with a parse error, and a quarterly gather never reads a monthly
\* note whose month is outside 01..12.
C17_QuarterOneToFour ==
    (ret.op = "GatherReferenceContent" /\ ret.category = CategoryQuarterly)
        => /\ ~IsQuarterForm(ret.name)
                => ret.err = "could not parse quarter" /\ ret.reads = << >>
           /\ \A i \in 1..Len(ret.reads) : MonthRead(ret.reads[i]) \in 1..12

\* The calendar date the i-th read of the gather named.
DateRead(i) == ParseDay(ret.reads[i][3]).t

\* C18: every date D is one of the seven dates the weekly gather takes from
\* mondayOfISOWeek applied to the week name the reminder scan derives for D,
\* also near a new year, where the ISO year of D may not be its calendar year.
C18_DateInItsWeek ==
    \A d \in WeekDates :
        (Gathered_ok(CategoryWeekly) /\ ret.name = WeekName(ISOWeek(d)))
            => \E i \in 1..Len(ret.reads) : DateRead(i) = d

\* C19: for every week name that parses, the dates the weekly gather reads
\* are exactly seven consecutive calendar dates, the first a Monday.
C19_SevenDaysFromMonday ==
    Gathered_ok(CategoryWeekly) =>
        /\ Len(ret.reads) = 7
        /\ Weekday(DateRead(1)) = 1
        /\ \A i \in 1..6 : DateRead(i + 1) = DateRead(i) + 1

\* C20: for every year Y, the Monday mondayOfISOWeek computes for week 1 of Y
\* is on or after December 29 of Y - 1 and on or before January 4 of Y.
C20_FirstMondayRange ==
    \A y \in WeekYears :
        (Gathered_ok(CategoryWeekly) /\ ret.name = WeekName([year |-> y, week |-> 1]))
            => /\ Weekday(DateRead(1)) = 1
               /\ DateRead(1) >= Date(y - 1, 12, 29)
               /\ DateRead(1) <= Date(y, 1, 4)

\* Week 1 of 2026 was gathered: January 4 is a Sunday and the Monday is
\* December 29 of 2025.
C20_Witness ==
    /\ Gathered_ok(CategoryWeekly)
    /\ ret.name = WeekName([year |-> 2026, week |-> 1])
    /\ Weekday(Date(2026, 1, 4)) = 0
    /\ DateRead(1) = Date(2025, 12, 29)

\* The gathers started and not yet run.
GathersStarted(bag) ==
    BagCardinality([c \in { d \in BagToSet(bag) : d.cmd = "loadReferenceContent" } |-> bag[c]])

\* C14: GatherReferenceContent for the category Daily returns empty text and
\* no error, for every name; and while the note edited is daily no step
\* starts a reference gather, and the reference pane is not shown.
C14_DailyHasNoReference ==
    [][/\ (ret'.op = "GatherReferenceContent" /\ ret'.category = CategoryDaily)
            => ret'.content = << >> /\ ret'.err = nil /\ ret'.reads = << >>
       /\ (model'.screen = screenEdit /\ model'.editCategory = CategoryDaily)
            => /\ GathersStarted(cmds') <= GathersStarted(cmds)
               /\ ~ShowsReferencePane(model')]_vars

\* The gather was called for a daily name, and today's note is being edited
\* when the reference gathered for a weekly note that was edited before it
\* has arrived.
C14_Witness ==
    /\ ret.op = "GatherReferenceContent" /\ ret.category = CategoryDaily
    /\ ret.name = FormatDay(Date(2025, 1, 13))
    /\ model.screen = screenEdit
    /\ model.editCategory = CategoryDaily
    /\ model.editRef # << >>

\* The calendar days of the month called `name`.
DaysOfMonth(name) ==
    LET first == CHOOSE d \in MonthStarts : FormatMonth(d) = name
    IN  first..(first + daysIn(Month(first), Year(first)) - 1)

\* The Monday of the week that holds day d.
MondayOf(d) == d - ((Weekday(d) + 6) % 7)

\* The week names the monthly gather computed: those of the notes it read.
WeeksListed == [i \in 1..Len(ret.reads) |-> ret.reads[i][3]]

\* The Monday of the i-th week listed, a week of the month gathered.
MondayListed(i) ==
    MondayOf(CHOOSE d \in DaysOfMonth(ret.name) : WeekName(ISOWeek(d)) = WeeksListed[i])

\* C21: for every month, the list of ISO weeks the monthly gather computes
\* holds the ISO week of every calendar day of the month and nothing else,
\* has no duplicates, is strictly chronological and has 4 to 6 entries; the
\* week that holds the day before the month's first day, or the day after
\* its last, is listed when it holds a day of the month, so a week spanning
\* a month boundary is in the lists of both months; the list of 2025-01
\* starts with 2025-W01.
C21_WeeksOfMonth ==
    Gathered_ok(CategoryMonthly) =>
        LET days == DaysOfMonth(ret.name)
            n    == Len(WeeksListed)
        IN  /\ { WeeksListed[i] : i \in 1..n } = { WeekName(ISOWeek(d)) : d \in days }
            /\ \A i, j \in 1..n : i < j => WeeksListed[i] # WeeksListed[j]
            /\ \A i \in 1..(n - 1) : MondayListed(i) < MondayListed(i + 1)
            /\ n \in 4..6
            /\ MondayOf(Least(days)) < Least(days)
                 => WeeksListed[1] = WeekName(ISOWeek(Least(days) - 1))
            /\ MondayOf(Greatest(days)) + 6 > Greatest(days)
                 => WeeksListed[n] = WeekName(ISOWeek(Greatest(days) + 1))
            /\ ret.name = << "2", "0", "2", "5", "-", "0", "1" >>
                 => WeeksListed[1] = << "2", "0", "2", "5", "-", "W", "0", "1" >>

\* December 2024 was gathered: six weeks, the first begun in November and the
\* last, week 1 of 2025, ending in January.
C21_Witness ==
    /\ Gathered_ok(CategoryMonthly)
    /\ ret.name = FormatMonth(Date(2024, 12, 1))
    /\ Len(WeeksListed) = 6
    /\ MondayListed(1) = Date(2024, 11, 25)
    /\ WeeksListed[6] = WeekName([year |-> 2025, week |-> 1])

\* The quarters 1..4 that the name quarterName gives day d ends with.
QuartersNamed(d) ==
    { k \in 1..4 : EndsWith(quarterName(d), << "-", "Q" >> \o Itoa(k)) }

\* C22: quarterName maps every month 1..12 to exactly one quarter, the quarter
\* q = (month - 1) / 3 + 1 of 1..4, and the quarterly gather of the name it
\* gives reads the three months startMonth..startMonth + 2 with
\* startMonth = (q - 1) * 3 + 1, the month being one of them.
C22_QuarterOfMonth ==
    \A d \in QuarterDates :
        LET q == (Month(d) - 1) \div 3 + 1
        IN  /\ QuartersNamed(d) = { q }
            /\ (ret.op = "GatherReferenceContent" /\ ret.name = quarterName(d))
                 => /\ ret.err = nil
                    /\ Len(ret.reads) = 3
                    /\ \A i \in 1..3 : MonthRead(ret.reads[i]) = (q - 1) * 3 + 1 + (i - 1)
                    /\ \E i \in 1..3 : MonthRead(ret.reads[i]) = Month(d)

\* The quarter of a December was gathered: the fourth, whose last month read
\* is the twelfth.
C22_Witness ==
    /\ Gathered_ok(CategoryQuarterly)
    /\ ret.name = quarterName(Date(2024, 12, 1))
    /\ QuartersNamed(Date(2024, 12, 1)) = { 4 }
    /\ MonthRead(ret.reads[3]) = 12

\* The note the last call named is not in the store.
Absent == notePath(ret.project, ret.category, ret.name) \notin DOMAIN files

\* C23: ReadNote of a note that does not exist returns empty text and no
\* error, and returns an error when the read fails, so that absence is told
\* from a read failure; NoteExists returns false for a note that does not
\* exist and reports no error.
C23_AbsentIsNotAnError ==
    /\ (ret.op = "ReadNote" /\ Absent /\ ret.failAt = 0)
         => ret.content = << >> /\ ret.err = nil
    /\ (ret.op = "ReadNote" /\ ret.failAt # 0) => ret.err # nil
    /\ (ret.op = "NoteExists" /\ Absent) => ~ret.exists /\ ret.err = nil

\* The summary of week 2025-W03 was read when the store held daily notes and
\* no such summary.
C23_Witness ==
    /\ ret.op = "ReadNote" /\ Absent /\ ret.failAt = 0
    /\ ret.category = CategoryWeekly
    /\ ret.name = WeekName(ISOWeek(WeekStart))
    /\ DirNames(files, ret.project, CategoryDaily) # {}
    /\ ret.content = << >> /\ ret.err = nil

\* C24: a call of CheckMissingSummaries or of GatherReferenceContent leaves
\* the store as it was: the same notes with the same contents, whether the
\* call returns a result or an error.
C24_EngineOnlyReads ==
    [][ret'.op \in { "CheckMissingSummaries", "GatherReferenceContent" }
         => files' = files]_vars

\* A second scan of a store that holds notes returned reminders, as the
\* scan before it did.
C24_Witness ==
    /\ files # << >>
    /\ ret.op = "CheckMissingSummaries" /\ ret.again
    /\ ret.reminders # << >>

\* The number of elements of a bag whose field `field` is in `values`.
CountIn(bag, field, values) ==
    BagCardinality([x \in { y \in BagToSet(bag) : y[field] \in values } |-> bag[x]])

\* The reminder scans and reference gathers that were started and whose
\* result Update has not received: commands running, and messages waiting.
ScansAndGathers ==
    CountIn(cmds, "cmd", { "loadReminders", "loadReferenceContent" })
      + CountIn(inbox, "type", { "remindersLoadedMsg", "refContentLoadedMsg" })

\* C25: at most one reminder scan or reference gather is running at any time:
\* none starts before the result of the one before it has been consumed.
C25_OneAtATime == ScansAndGathers <= 1

\* The reminder scans, and the writes of a note, started and not yet run.
ScansStarted(bag) == CountIn(bag, "cmd", { "loadReminders" })

SavesStarted(bag) == CountIn(bag, "cmd", { "saveNote" })

\* C26: every transition into the project view (a project is selected, the
\* user goes back from the note list, the editor is left by esc or by
\* ctrl+c) starts a new reminder scan, or starts the write of the edited
\* note, after which the scan is started.
C26_ScanOnEveryEntry ==
    [][(model.screen # screenProjectView /\ model'.screen = screenProjectView)
         => \/ ScansStarted(cmds') > ScansStarted(cmds)
            \/ SavesStarted(cmds') > SavesStarted(cmds)]_vars

\* C27: in the editor ctrl+c goes back to the project view and issues no
\* command, so it writes nothing; a write of a note is issued only by esc in
\* the editor, for the project, category and name being edited and with the
\* editor's text; and the store changes only when such a write runs, the
\* note it names getting the text it carries.
C27_OnlyEscWrites ==
    [][/\ (model.screen = screenEdit /\ Press("ctrl+c", EditBatch))
            => /\ model'.screen = screenProjectView
               /\ cmds' = cmds
               /\ files' = files
       /\ SavesStarted(cmds') > SavesStarted(cmds)
            => /\ model.screen = screenEdit
               /\ Press("esc", EditBatch)
               /\ cmds' = cmds (+) SetToBag({ saveNote(model.currentProject, model.editCategory,
                                                       model.editNoteName, model.editText) })
       /\ files' # files
            => \E c \in BagToSet(cmds) :
                 /\ c.cmd = "saveNote"
                 /\ cmds' = cmds (-) SetToBag({ c })
                 /\ files' = WriteFile(files, notePath(c.project, c.category, c.name),
                                       c.content)]_vars

\* The edit of the summary of week 2025-W03, in which the user typed, ended
\* with ctrl+c and the summary is not in the store; today's note, saved with
\* esc in the session before, is.
C27_Witness ==
    /\ model.screen = screenProjectView
    /\ model.statusMsg = << "Edit cancelled" >>
    /\ model.editCategory = CategoryWeekly
    /\ model.editText # << >>
    /\ notePath("alpha", CategoryWeekly, WeekName(ISOWeek(WeekStart))) \notin DOMAIN files
    /\ notePath("alpha", CategoryDaily, TodayName(now)) \in DOMAIN files

\* The reminder under the cursor of the project view.
ReminderUnderCursor == model.reminders[model.menuCursor + 1]

\* The note the editor is open on is the one reminder r names.
Opens(mm, r) ==
    mm.screen = screenEdit /\ mm.editCategory = r.Category /\ mm.editNoteName = r.Name

\* C28: enter in the project view with the cursor on a reminder opens the
\* editor on that reminder's category and period name, in the current
\* project, and starts the load of the note and the gather of that period's
\* reference; enter with the cursor on a menu item opens no reminder and
\* starts no gather.
C28_EnterOpensReminderUnderCursor ==
    [][(model.screen = screenProjectView /\ Press("enter", EditBatch))
         => IF model.menuCursor < Len(model.reminders)
            THEN /\ Opens(model', ReminderUnderCursor)
                 /\ model'.currentProject = model.currentProject
                 /\ cmds' = cmds (+) Batch(<< loadNoteContent(model.currentProject,
                                                              ReminderUnderCursor.Category,
                                                              ReminderUnderCursor.Name, "edit"),
                                              BlinkCmd,
                                              loadReferenceContent(model.currentProject,
                                                                   ReminderUnderCursor.Category,
                                                                   ReminderUnderCursor.Name) >>)
            ELSE /\ \A i \in 1..Len(model.reminders) : ~Opens(model', model.reminders[i])
                 /\ GathersStarted(cmds') = GathersStarted(cmds)]_vars

\* The editor is open on the third of four reminders, the one the cursor is
\* on, and the gather of its reference has been started.
C28_Witness ==
    /\ Len(model.reminders) = 4
    /\ model.menuCursor = 2
    /\ Opens(model, ReminderUnderCursor)
    /\ BagIn(loadReferenceContent("alpha", ReminderUnderCursor.Category,
                                  ReminderUnderCursor.Name), cmds)

\* C29: the text esc writes for the note being edited is the content of that
\* note followed by what the user typed since the editor was opened on it,
\* whatever the order in which load results and keys reached Update.
C29_SavesLoadedPlusEdits ==
    [][(model.screen = screenEdit /\ Press("esc", EditBatch))
         => model.editText
              = ContentOf(model.currentProject, model.editCategory, model.editNoteName)
                  \o typed]_vars

\* What a scan of a project returns on the store as it is: the reminders of
\* one of its iteration orders, or none when the scan fails.
ScanResults(project) ==
    { CheckMissingSummaries(files, project, now, TRUE, iter).reminders :
        iter \in IterOrders(files, project, now) } \cup { << >> }

\* C30: the reminders the model holds are none, as set when a project is
\* selected, or the result of a scan of the current project, whatever the
\* order in which the results of the scans arrive.
C30_RemindersOfCurrentProject ==
    model.currentProject # ""
      => model.reminders \in ScanResults(model.currentProject)

\* The names a listing of the displayed category returns on the store as it is.
ListedForDisplayed ==
    DirNames(files, model.currentProject, model.noteCategory)

\* C31: enter in the note list opens the editor on a note whose name is
\* listed for the category the screen displays, whether or not the listing
\* of that category has arrived.
C31_OpensListedNote ==
    [][(InNoteList("enter") /\ model'.screen = screenEdit)
         => /\ model'.editCategory = model.noteCategory
            /\ model'.editNoteName \in ListedForDisplayed]_vars

\* C39: in the note list, when nothing is in flight any more, the preview is
\* the content of the note under the cursor, whatever the order in which the
\* loads the cursor's moves started have delivered their results.
C39_PreviewOfNoteUnderCursor ==
    (/\ model.screen = screenNoteList
     /\ InFlight = 0
     /\ model.noteCursor < Len(model.notes))
      => model.previewNote
           = ContentOf(model.currentProject, model.noteCategory,
                       model.notes[model.noteCursor + 1])

\* The reminders shown for which the current project holds a summary note.
RemindersOfWrittenSummaries ==
    { i \in 1..Len(model.reminders) :
        notePath(model.currentProject, model.reminders[i].Category, model.reminders[i].Name)
          \in DOMAIN files }

\* C32: once the saves and the reminder scans in flight have delivered their
\* results (nothing is in flight any more), the project view shows no
\* reminder for a period whose summary was saved.
C32_SavedSummaryNotReminded ==
    (model.screen = screenProjectView /\ InFlight = 0)
      => RemindersOfWrittenSummaries = {}

\* C33: the cursor of the project view is on one of the items the view
\* lists, the reminders and the six menu items, in every state.
C33_CursorOnAnItem ==
    /\ Len(menuItems) = 6
    /\ 0 <= model.menuCursor
    /\ model.menuCursor < Len(model.reminders) + 6

\* A scan result with no reminder has arrived while the cursor was further
\* down than the menu is long: the cursor is on the last menu item.
C33_Witness ==
    /\ model.screen = screenProjectView
    /\ last.type = "remindersLoadedMsg"
    /\ model.reminders = << >>
    /\ model.menuCursor = Len(menuItems) - 1

\* The summary notes the store holds without content.
EmptySummaries == { p \in DOMAIN files : p[2] # CategoryDaily /\ files[p] = << >> }

\* The category whose gather reads the notes of a category.
CategoryAbove(category) ==
    IF category = CategoryWeekly THEN CategoryMonthly
    ELSE IF category = CategoryMonthly THEN CategoryQuarterly
    ELSE CategoryYearly

\* The names of the summaries of a category for the two months around the
\* new year 2025.
NamesAround(category) ==
    { IF category = CategoryMonthly THEN FormatMonth(d)
      ELSE IF category = CategoryQuarterly THEN quarterName(d)
      ELSE FormatYear(d) : d \in { Date(2024, 12, 1), Date(2025, 1, 1) } }

\* The gather `gathered` has read the note at path p.
ReadsNote(gathered, p) == \E i \in 1..Len(gathered.reads) : gathered.reads[i] = p

\* The gather shows the note `name` under its header as "(no summary)".
ShowsNoSummary(gathered, name) ==
    \E i \in 1..Len(gathered.parts) :
      \/ gathered.parts[i] = Block(name, NoSummary)
      \/ \E m \in 1..12 : gathered.parts[i] = WordBlock(name, MonthString(m), NoSummary)

\* The gather of the summary `above` of the level above the note at path p.
GatherAbove(p, above) ==
    GatherReferenceContent(files, p[1], CategoryAbove(p[2]), above, UTC, 0)

\* No reminder of a scan's result names the note at path p.
NotReminded(found, p) ==
    \A i \in 1..Len(found) : ~(found[i].Category = p[2] /\ found[i].Name = p[3])

\* The write of a note that esc started has succeeded, and Update has just
\* received its result.
Saved == last = [type |-> "noteSavedMsg", err |-> nil]

\* C34: once esc has saved a summary note without content the note exists:
\* NoteExists is true for it and no scan reminds of its period, although
\* ReadNote returns empty text for it and every gather that reads it shows
\* "(no summary)" for it.
C34_EmptySummaryExists ==
    Saved => \A p \in EmptySummaries :
      /\ NoteExists(files, p[1], p[2], p[3])
      /\ \A iter \in IterOrders(files, p[1], now) :
           NotReminded(CheckMissingSummaries(files, p[1], now, TRUE, iter).reminders, p)
      /\ ReadNote(files, p[1], p[2], p[3], TRUE) = [content |-> << >>, err |-> nil]
      /\ p[2] # CategoryYearly
           => /\ \E above \in NamesAround(CategoryAbove(p[2])) :
                   ReadsNote(GatherAbove(p, above), p)
              /\ \A above \in NamesAround(CategoryAbove(p[2])) :
                   ReadsNote(GatherAbove(p, above), p)
                     => ShowsNoSummary(GatherAbove(p, above), p[3])

\* Esc has saved the weekly summary 2025-W01, opened from its reminder,
\* without content, and Update has received the result of the write.
C34_Witness ==
    /\ Saved
    /\ model.screen = screenProjectView
    /\ model.editCategory = CategoryWeekly
    /\ notePath(model.currentProject, model.editCategory, model.editNoteName) \in EmptySummaries
    /\ \E i \in 1..Len(model.reminders) :
         /\ model.reminders[i].Category = model.editCategory
         /\ model.reminders[i].Name = model.editNoteName

\* The dates of the daily notes of the scanned project.
NoteDates == DailyDates(DirNames(files, ret.project, CategoryDaily))

\* The name the scan gives the period of a category that holds the date d
\* (the keys of its four maps).
ScanKey(category, d) ==
    IF category = CategoryWeekly THEN WeekName(ISOWeek(d))
    ELSE IF category = CategoryMonthly THEN FormatMonth(d)
    ELSE IF category = CategoryQuarterly THEN quarterName(d)
    ELSE FormatYear(d)

\* The note of the level below the category to which the date d belongs: the
\* daily note of d, or the summary of its week, month or quarter.
ChildOf(category, d) ==
    IF category = CategoryWeekly THEN notePath(ret.project, CategoryDaily, FormatDay(d))
    ELSE IF category = CategoryMonthly
    THEN notePath(ret.project, CategoryWeekly, ScanKey(CategoryWeekly, d))
    ELSE IF category = CategoryQuarterly
    THEN notePath(ret.project, CategoryMonthly, ScanKey(CategoryMonthly, d))
    ELSE notePath(ret.project, CategoryQuarterly, ScanKey(CategoryQuarterly, d))

\* C35: the gather of a reminder's reference reads, for every daily note that
\* caused the reminder, the note of the level below to which the daily note
\* belongs: the daily note itself for a week, its week for a month, its month
\* for a quarter, its quarter for a year.
C35_ScanAndGatherAgree ==
    (ret.op = "GatherReferenceContent" /\ ret.err = nil)
      => \A d \in NoteDates :
           ScanKey(ret.category, d) = ret.name
             => \E i \in 1..Len(ret.reads) : ret.reads[i] = ChildOf(ret.category, d)

\* The categories of the summaries.
SummaryKinds == { CategoryWeekly, CategoryMonthly, CategoryQuarterly, CategoryYearly }

\* The model after the editor was opened on the note the gather was called
\* for and Update has received the result the gather returned.
EditorWithReference ==
    Update(enterEditMode(NewModel, ret.category, ret.name).m,
           refContentLoadedMsg([content |-> ret.content, err |-> ret.err]), now).m

\* C36: a gather for a summary category that succeeded returned text that is
\* not empty, and the editor of that summary shows the reference pane once
\* Update has received it.
C36_ReferenceNeverEmpty ==
    (ret.op = "GatherReferenceContent" /\ ret.category \in SummaryKinds /\ ret.err = nil)
      => /\ ret.content # << >>
         /\ ShowsReferencePane(EditorWithReference)

\* The week 2025-W03 was gathered on a store without a daily note of that
\* week that has content: the text is the placeholder.
C36_Witness ==
    /\ ret.op = "GatherReferenceContent" /\ ret.category = CategoryWeekly /\ ret.err = nil
    /\ ret.name = WeekName(ISOWeek(Date(2025, 1, 13)))
    /\ ret.content = NoDailyEntries
    /\ ShowsReferencePane(EditorWithReference)

\* The periods of a category that hold a daily entry and have no summary,
\* the period that holds the instant t left out.
MissingExcept(c, t) ==
    { << c, PeriodName(c, d) >> : d \in { e \in EntryDates : ~HasSummary(c, e) } }
      \ { << c, PeriodName(c, t) >> }

\* C37: the current week, month, quarter and year a scan leaves out are
\* those of one instant, the reading of the clock when the scan was called:
\* its reminders are the missing periods other than the four that hold it.
C37_OneInstant ==
    Scanned => Reminded = UNION { MissingExcept(c, ret.at) : c \in SummaryCategories }

\* A scan left out the month that holds its instant and reminded of a week
\* of that month that does not hold it.
C37_Witness ==
    /\ Scanned
    /\ \E d \in EntryDates :
         /\ PeriodName(CategoryMonthly, d) = PeriodName(CategoryMonthly, ret.at)
         /\ PeriodName(CategoryWeekly, d) # PeriodName(CategoryWeekly, ret.at)
         /\ << CategoryWeekly, PeriodName(CategoryWeekly, d) >> \in Reminded
         /\ << CategoryMonthly, PeriodName(CategoryMonthly, d) >> \notin Reminded
         /\ PeriodName(CategoryMonthly, AddDays(ret.at, 7)) # PeriodName(CategoryMonthly, ret.at)

\* C38: a scan returns at most one reminder for a category and period name,
\* however many daily notes lie in the period.
C38_OneReminderPerPeriod ==
    Scanned =>
      \A i, j \in 1..Len(ret.reminders) :
        (ReminderAt(i).Category = ReminderAt(j).Category /\ ReminderAt(i).Name = ReminderAt(j).Name)
          => i = j

\* Two daily notes or more lie in one week, and the scan returned a reminder
\* for that week.
C38_Witness ==
    /\ Scanned
    /\ \E d, e \in EntryDates :
         /\ d # e
         /\ PeriodName(CategoryWeekly, d) = PeriodName(CategoryWeekly, e)
         /\ << CategoryWeekly, PeriodName(CategoryWeekly, d) >> \in Reminded

====
